---------------------------- MODULE Spec2Model ----------------------------
(***************************************************************************)
(* A model of the data-mining (typed filter) engine of the profile         *)
(* fetcher: analyzeFieldType, validateCondition, filterItems and the       *)
(* type-specific filters, and the mineData run that drives them.           *)
(*                                                                         *)
(* Strings are sequences of one-character strings, so that lower-casing,   *)
(* substring search, the numeric-condition regular expression, parseFloat  *)
(* and the date parser are computed character by character as the code     *)
(* computes them.  Numbers are fixed-point integers (value * Scale); the   *)
(* strings the model draws carry at most FracDigits fractional digits, so  *)
(* every double the program would compute on them compares exactly as its  *)
(* fixed-point image does.  Instants count from 1970-01-01T00:00:00Z.         *)
(***************************************************************************)
EXTENDS Integers, Sequences, FiniteSets, TLC

(***************************************************************************)
(* Bounds of the model.                                                    *)
(***************************************************************************)
\* fractional decimal digits a modelled number carries
FracDigits == 3
\* longest operator prefix ([><=]+) of a generated numeric condition
MaxOpLen == 2
\* longest record list of a mining run
MaxItems == 3

RECURSIVE Pow10(_)
Pow10(k) == IF k = 0 THEN 1 ELSE 10 * Pow10(k - 1)

Scale == Pow10(FracDigits)

(***************************************************************************)
(* Characters and strings.                                                 *)
(***************************************************************************)
UpperChars == <<"A","B","C","D","E","F","G","H","I","J","K","L","M",
                "N","O","P","Q","R","S","T","U","V","W","X","Y","Z">>
LowerChars == <<"a","b","c","d","e","f","g","h","i","j","k","l","m",
                "n","o","p","q","r","s","t","u","v","w","x","y","z">>
DigitChars == <<"0","1","2","3","4","5","6","7","8","9">>

IsDigit(c) == \E i \in 1..10 : DigitChars[i] = c
DigitVal(c) == (CHOOSE i \in 1..10 : DigitChars[i] = c) - 1
\* the white space the model's strings can hold (\s, StrWhiteSpaceChar)
IsSpace(c) == c = " "

LowerChar(c) ==
    IF \E i \in 1..26 : UpperChars[i] = c
    THEN LowerChars[CHOOSE i \in 1..26 : UpperChars[i] = c]
    ELSE c

\* String.prototype.toLowerCase
toLowerCase(s) == [i \in 1..Len(s) |-> LowerChar(s[i])]

\* String.prototype.includes
includes(h, n) ==
    \E i \in 0..(Len(h) - Len(n)) : SubSeq(h, i + 1, i + Len(n)) = n

\* String.prototype.split(' '): the pieces between single spaces
RECURSIVE split(_)
split(s) ==
    IF \A i \in 1..Len(s) : s[i] # " " THEN <<s>>
    ELSE LET i == CHOOSE k \in 1..Len(s) :
                      s[k] = " " /\ \A j \in 1..(k - 1) : s[j] # " "
         IN  <<SubSeq(s, 1, i - 1)>> \o split(SubSeq(s, i + 1, Len(s)))

(***************************************************************************)
(* Numbers: NaN or a fixed-point value.                                    *)
(***************************************************************************)
NaN == [ok |-> FALSE, v |-> 0]
Num(v) == [ok |-> TRUE, v |-> v]

\* first index >= i of s that holds no digit (Len(s)+1 when there is none)
RECURSIVE DigitsEnd(_, _)
DigitsEnd(s, i) ==
    IF i <= Len(s) /\ IsDigit(s[i]) THEN DigitsEnd(s, i + 1) ELSE i

RECURSIVE SkipSpace(_, _)
SkipSpace(s, i) ==
    IF i <= Len(s) /\ IsSpace(s[i]) THEN SkipSpace(s, i + 1) ELSE i

\* the value of the digit string s[i..j-1]
RECURSIVE IntVal(_, _, _)
IntVal(s, i, j) ==
    IF j <= i THEN 0 ELSE IntVal(s, i, j - 1) * 10 + DigitVal(s[j - 1])

\* the fraction .s[i..j-1] in fixed point
FracVal(s, i, j) ==
    IF j <= i THEN 0
    ELSE IF j - i <= FracDigits
         THEN IntVal(s, i, j) * Pow10(FracDigits - (j - i))
         ELSE IntVal(s, i, j) \div Pow10((j - i) - FracDigits)

\* The longest prefix of s, after leading white space, that is a
\* StrDecimalLiteral: [+-] digits [. digits] [e [+-] digits], or
\* [+-] . digits [e ...].  end is the index after the literal.
ScanDecimal(s) ==
    LET Exponent(neg, mant, mEnd, e1, e2) ==
            LET hasExp == mEnd <= Len(s) /\ s[mEnd] \in {"e", "E"} /\ e2 > e1
                ex == IF hasExp THEN IntVal(s, e1, e2) ELSE 0
                mag == IF ~hasExp THEN mant
                       ELSE IF s[mEnd + 1] = "-" THEN mant \div Pow10(ex)
                       ELSE mant * Pow10(ex)
            IN  [ok |-> TRUE, v |-> IF neg THEN 0 - mag ELSE mag,
                 end |-> IF hasExp THEN e2 ELSE mEnd]
        Mantissa(i0, i1, i2, i3) ==
            LET hasDot == i3 > i2
                nInt == i2 - i1
                nFrac == IF hasDot THEN i3 - (i2 + 1) ELSE 0
                \* a dot with no digit on either side is not part of the literal
                mEnd == IF hasDot /\ (nInt > 0 \/ nFrac > 0) THEN i3 ELSE i2
                mant == IntVal(s, i1, i2) * Scale
                          + (IF hasDot THEN FracVal(s, i2 + 1, i3) ELSE 0)
                e1 == IF mEnd + 1 <= Len(s) /\ s[mEnd + 1] \in {"+", "-"}
                      THEN mEnd + 2 ELSE mEnd + 1
            IN  IF nInt = 0 /\ nFrac = 0
                THEN [ok |-> FALSE, v |-> 0, end |-> i0]
                ELSE Exponent(i0 <= Len(s) /\ s[i0] = "-", mant, mEnd,
                              e1, DigitsEnd(s, e1))
        Fraction(i0, i1, i2) ==
            Mantissa(i0, i1, i2,
                     IF i2 <= Len(s) /\ s[i2] = "."
                     THEN DigitsEnd(s, i2 + 1) ELSE i2)
        Digits(i0, i1) == Fraction(i0, i1, DigitsEnd(s, i1))
        Sign(i0) ==
            Digits(i0, IF i0 <= Len(s) /\ s[i0] \in {"+", "-"} THEN i0 + 1 ELSE i0)
    IN  Sign(SkipSpace(s, 1))

\* parseFloat on a string
parseFloatStr(s) ==
    LET Value(r) == IF r.ok THEN Num(r.v) ELSE NaN
    IN  Value(ScanDecimal(s))

\* Number(string) (the coercion isNaN applies): the whole string, white space
\* trimmed, must be a numeric literal; the empty string is 0
StringToNumber(s) ==
    LET Value(r) ==
            IF SkipSpace(s, 1) > Len(s) THEN Num(0)
            ELSE IF r.ok /\ SkipSpace(s, r.end) > Len(s) THEN Num(r.v)
            ELSE NaN
    IN  Value(ScanDecimal(s))

\* the decimal digits of a natural number
RECURSIVE NatToString(_)
NatToString(n) ==
    IF n < 10 THEN <<DigitChars[n + 1]>>
    ELSE NatToString(n \div 10) \o <<DigitChars[(n % 10) + 1]>>

\* the FracDigits fractional digits of f, trailing zeros dropped
RECURSIVE FracToString(_, _)
FracToString(f, width) ==
    IF f = 0 THEN <<>>
    ELSE <<DigitChars[(f \div Pow10(width - 1)) + 1]>>
           \o FracToString(f % Pow10(width - 1), width - 1)

\* Number.prototype.toString of a fixed-point value
NumberToString(v) ==
    LET a == IF v < 0 THEN 0 - v ELSE v
        ip == a \div Scale
        fp == a % Scale
    IN  (IF v < 0 THEN <<"-">> ELSE <<>>)
          \o NatToString(ip)
          \o (IF fp = 0 THEN <<>> ELSE <<".">> \o FracToString(fp, FracDigits))


(***************************************************************************)
(* JSON values of a record field.  item[field] of an absent key is         *)
(* undefined.                                                              *)
(***************************************************************************)
JNull == [t |-> "null", b |-> FALSE, n |-> 0, s |-> <<>>]
JUndefined == [t |-> "undefined", b |-> FALSE, n |-> 0, s |-> <<>>]
JBool(b) == [t |-> "boolean", b |-> b, n |-> 0, s |-> <<>>]
JNum(n) == [t |-> "number", b |-> FALSE, n |-> n, s |-> <<>>]
JStr(s) == [t |-> "string", b |-> FALSE, n |-> 0, s |-> s]

\* item[field]
Get(item, f) == IF f \in DOMAIN item THEN item[f] ELSE JUndefined

\* value === null || value === undefined
IsNullish(value) == value.t \in {"null", "undefined"}

\* String(value) of a non-nullish value
String(value) ==
    CASE value.t = "boolean" ->
            IF value.b THEN <<"t","r","u","e">> ELSE <<"f","a","l","s","e">>
      [] value.t = "number" -> NumberToString(value.n)
      [] value.t = "string" -> value.s
      [] value.t = "null" -> <<"n","u","l","l">>
      [] OTHER -> <<"u","n","d","e","f","i","n","e","d">>

\* parseFloat(value): the argument is converted to a string first
parseFloat(value) == parseFloatStr(String(value))

\* Number(value), the coercion of isNaN(value)
ToNumber(value) ==
    CASE value.t = "boolean" -> Num(IF value.b THEN Scale ELSE 0)
      [] value.t = "number" -> Num(value.n)
      [] value.t = "string" -> StringToNumber(value.s)
      [] value.t = "null" -> Num(0)
      [] OTHER -> NaN

(***************************************************************************)
(* Dates.  An instant is NaN (Invalid Date) or a count of milliseconds,    *)
(* kept as whole seconds s and milliseconds ms \in 0..999.                 *)
(***************************************************************************)
InvalidDate == [ok |-> FALSE, s |-> 0, ms |-> 0]
Instant(s, ms) == [ok |-> TRUE, s |-> s, ms |-> ms]

\* a < b on valid instants
InstantLess(a, b) == a.s < b.s \/ (a.s = b.s /\ a.ms < b.ms)

\* a <= b on valid instants
InstantLeq(a, b) == a.s < b.s \/ (a.s = b.s /\ a.ms <= b.ms)

\* days from 1970-01-01 to the civil date y-m-d (a day past the month's end
\* runs on into the next month, as MakeDay does)
DaysFromCivil(y, m, d) ==
    LET yy == IF m <= 2 THEN y - 1 ELSE y
        era == yy \div 400
        yoe == yy - era * 400
        mp == IF m > 2 THEN m - 3 ELSE m + 9
        doy == (153 * mp + 2) \div 5 + d - 1
        doe == yoe * 365 + yoe \div 4 - yoe \div 100 + doy
    IN  era * 146097 + doe - 719468

\* s begins with the pattern p: "d" stands for \d, any other entry for itself
MatchPrefix(s, p) ==
    /\ Len(s) >= Len(p)
    /\ \A i \in 1..Len(p) : IF p[i] = "d" THEN IsDigit(s[i]) ELSE s[i] = p[i]

PatIsoDateTime == <<"d","d","d","d","-","d","d","-","d","d","T",
                    "d","d",":","d","d",":","d","d">>
PatIsoDate == <<"d","d","d","d","-","d","d","-","d","d">>
PatSlashDate == <<"d","d","/","d","d","/","d","d","d","d">>
PatDashDate == <<"d","d","-","d","d","-","d","d","d","d">>

\* The date-time string format the language defines: YYYY-MM-DD (UTC),
\* YYYY-MM-DDTHH:MM:SS (local time) and YYYY-MM-DDTHH:MM:SSZ (UTC), with
\* fields in range.  Every other string is left to the implementation.
IsIsoString(s) ==
    /\ \/ Len(s) = 10 /\ MatchPrefix(s, PatIsoDate)
       \/ Len(s) = 19 /\ MatchPrefix(s, PatIsoDateTime)
       \/ Len(s) = 20 /\ MatchPrefix(s, PatIsoDateTime) /\ s[20] = "Z"
    /\ IntVal(s, 6, 8) \in 1..12
    /\ IntVal(s, 9, 11) \in 1..31
    /\ Len(s) > 10 => /\ IntVal(s, 12, 14) \in 0..23
                      /\ IntVal(s, 15, 17) \in 0..59
                      /\ IntVal(s, 18, 20) \in 0..59

\* Date.parse of a string of the defined format, in a process whose local
\* time is zone minutes east of UTC
IsoParse(s, zone) ==
    LET days == DaysFromCivil(IntVal(s, 1, 5), IntVal(s, 6, 8), IntVal(s, 9, 11))
        secs == IF Len(s) = 10 THEN 0
                ELSE IntVal(s, 12, 14) * 3600 + IntVal(s, 15, 17) * 60
                       + IntVal(s, 18, 20)
        shift == IF Len(s) = 19 THEN zone * 60 ELSE 0
    IN  Instant(days * 86400 + secs - shift, 0)

\* Date.parse(s) / new Date(s) of a string: impl is what the implementation's
\* own heuristics answer for the strings outside the defined format
DateParse(s, zone, impl) ==
    IF IsIsoString(s) THEN IsoParse(s, zone)
    ELSE IF s \in DOMAIN impl THEN impl[s] ELSE InvalidDate

\* new Date(value): a string is parsed, anything else is a millisecond count
\* (truncated to an integer)
NewDate(value, zone, impl) ==
    IF value.t = "string" THEN DateParse(value.s, zone, impl)
    ELSE LET Truncated(n) ==
                 IF n >= 0 THEN n \div Scale ELSE 0 - ((0 - n) \div Scale)
             InstantOf(msTotal) == Instant(msTotal \div 1000, msTotal % 1000)
         IN  InstantOf(Truncated(ToNumber(value).v))

\* the local calendar day of an instant (what toDateString renders)
LocalDay(d, zone) == (d.s + zone * 60) \div 86400


(***************************************************************************)
(* The type-specific filters.                                              *)
(***************************************************************************)
\* a filterString that compares case-sensitively
filterStringCaseSensitive(value, condition) ==
    includes(String(value), condition)

\* filterString: case-insensitive substring match
filterString(value, condition) ==
    includes(toLowerCase(String(value)), toLowerCase(condition))

filterBoolean(value, condition) ==
    LET boolCondition == toLowerCase(condition)
        boolValue == toLowerCase(String(value))
    IN  IF boolCondition = <<"t","r","u","e">>
           \/ boolCondition = <<"f","a","l","s","e">>
        THEN boolValue = boolCondition
        ELSE filterString(value, condition)

OpChars == {">", "<", "="}

\* first index >= i of s that holds no character of [><=]
RECURSIVE OpEnd(_, _)
OpEnd(s, i) ==
    IF i <= Len(s) /\ s[i] \in OpChars THEN OpEnd(s, i + 1) ELSE i

\* s[i..] matches -?\d+\.?\d*$
IsNumericLiteral(s, i) ==
    LET j1 == IF i <= Len(s) /\ s[i] = "-" THEN i + 1 ELSE i
        j2 == DigitsEnd(s, j1)
        j3 == IF j2 <= Len(s) /\ s[j2] = "." THEN j2 + 1 ELSE j2
        j4 == DigitsEnd(s, j3)
    IN  j2 > j1 /\ j4 = Len(s) + 1

\* condition.match(/^([><=]+)?\s*(-?\d+\.?\d*)$/): group 1 is the whole run of
\* operator characters (hasOp is false when the group did not take part),
\* group 2 the literal after the white space
NumericMatch(condition) ==
    LET i1 == OpEnd(condition, 1)
        i2 == SkipSpace(condition, i1)
    IN  [matched |-> IsNumericLiteral(condition, i2),
         hasOp |-> i1 > 1,
         op |-> SubSeq(condition, 1, i1 - 1),
         lit |-> SubSeq(condition, i2, Len(condition))]

\* a switch whose >= excludes equality
CompareNumbersStrict(operator, itemValue, conditionValue) ==
    CASE operator = <<">">> -> itemValue > conditionValue
      [] operator = <<"<">> -> itemValue < conditionValue
      [] operator = <<">", "=">> -> itemValue > conditionValue
      [] operator = <<"<", "=">> -> itemValue <= conditionValue
      [] OTHER -> itemValue = conditionValue

\* the switch (operator) of filterNumber
CompareNumbers(operator, itemValue, conditionValue) ==
    CASE operator = <<">">> -> itemValue > conditionValue
      [] operator = <<"<">> -> itemValue < conditionValue
      [] operator = <<">", "=">> -> itemValue >= conditionValue
      [] operator = <<"<", "=">> -> itemValue <= conditionValue
      [] OTHER -> itemValue = conditionValue

filterNumber(value, condition) ==
    LET Decide(numericMatch, conditionValue, itemValue) ==
            IF numericMatch.matched /\ itemValue.ok /\ conditionValue.ok
            THEN CompareNumbers(
                     IF numericMatch.hasOp THEN numericMatch.op ELSE <<"=">>,
                     itemValue.v, conditionValue.v)
            ELSE filterString(value, condition)
    IN  Decide(NumericMatch(condition),
               parseFloatStr(NumericMatch(condition).lit),
               parseFloat(value))

\* condition.includes(' ') && condition.split(' ').length === 2
IsRangeCondition(condition) ==
    includes(condition, <<" ">>) /\ Len(split(condition)) = 2

filterDate(value, condition, zone, impl) ==
    LET Decide(itemDate, conditionDate, start, end) ==
            IF IsRangeCondition(condition) /\ itemDate.ok /\ start.ok /\ end.ok
            THEN InstantLeq(start, itemDate) /\ InstantLeq(itemDate, end)
            ELSE IF conditionDate.ok /\ itemDate.ok
            THEN LocalDay(itemDate, zone) = LocalDay(conditionDate, zone)
            ELSE filterString(value, condition)
    IN  Decide(NewDate(value, zone, impl),
               DateParse(condition, zone, impl),
               DateParse(split(condition)[1], zone, impl),
               DateParse(split(condition)[2], zone, impl))

\* a callback that treats only null, not undefined, as the null condition
MatchesValueNullOnly(fieldType, value, condition, zone, impl) ==
    IF IsNullish(value)
    THEN toLowerCase(condition) = <<"n","u","l","l">>
    ELSE CASE fieldType = "boolean" -> filterBoolean(value, condition)
           [] fieldType = "number" -> filterNumber(value, condition)
           [] fieldType = "date" -> filterDate(value, condition, zone, impl)
           [] OTHER -> filterString(value, condition)

\* the callback of items.filter in filterItems, on one field value
MatchesValue(fieldType, value, condition, zone, impl) ==
    IF IsNullish(value)
    THEN toLowerCase(condition) = <<"n","u","l","l">>
         \/ toLowerCase(condition) = <<"u","n","d","e","f","i","n","e","d">>
    ELSE CASE fieldType = "boolean" -> filterBoolean(value, condition)
           [] fieldType = "number" -> filterNumber(value, condition)
           [] fieldType = "date" -> filterDate(value, condition, zone, impl)
           [] OTHER -> filterString(value, condition)

\* a filterItems that never looks at the first record
filterItemsSkipFirst(list, f, cond, analysis, zone, impl) ==
    LET Keep(item) == MatchesValue(analysis.type, Get(item, f), cond, zone, impl)
    IN  SelectSeq(Tail(list), Keep)

\* filterItems(items, field, condition, fieldAnalysis)
filterItems(list, f, cond, analysis, zone, impl) ==
    LET Keep(item) == MatchesValue(analysis.type, Get(item, f), cond, zone, impl)
    IN  SelectSeq(list, Keep)


(***************************************************************************)
(* analyzeFieldType and validateCondition.                                 *)
(***************************************************************************)
\* slice(0, 100): the number of non-null values analysed
SampleCap == 100
\* threshold = total * 0.7, as the fraction ThresholdNum / ThresholdDen; for
\* every total up to SampleCap the double total * 0.7 lies on the same side of
\* every integer count as the exact product does
ThresholdNum == 7
ThresholdDen == 10

\* count > threshold
ExceedsThreshold(count, total) == count * ThresholdDen > total * ThresholdNum

\* count >= threshold
ReachesThreshold(count, total) == count * ThresholdDen >= total * ThresholdNum

\* datePatterns.some(pattern => pattern.test(value))
MatchesDatePattern(s) ==
    \/ MatchPrefix(s, PatIsoDateTime)
    \/ MatchPrefix(s, PatIsoDate)
    \/ MatchPrefix(s, PatSlashDate)
    \/ MatchPrefix(s, PatDashDate)

\* isDateString(value) of a string
isDateString(s, zone, impl) ==
    MatchesDatePattern(s) /\ DateParse(s, zone, impl).ok

\* the category the forEach of analyzeFieldType counts one sample under
Classify(value, zone, impl) ==
    LET strValue == toLowerCase(String(value))
    IN  IF \/ strValue = <<"t","r","u","e">>
           \/ strValue = <<"f","a","l","s","e">>
           \/ value.t = "boolean"
        THEN "boolean"
        ELSE IF ToNumber(value).ok /\ parseFloat(value).ok THEN "number"
        ELSE IF value.t = "string" /\ isDateString(value.s, zone, impl) THEN "date"
        ELSE "string"

\* items.map(item => item[field]).filter(non-null).slice(0, 100)
Samples(list, f) ==
    LET values == [i \in 1..Len(list) |-> Get(list[i], f)]
        NonNull(v) == ~IsNullish(v)
        kept == SelectSeq(values, NonNull)
    IN  SubSeq(kept, 1, IF Len(kept) < SampleCap THEN Len(kept) ELSE SampleCap)

\* the counters of the forEach of analyzeFieldType, given each sample's category
CountByCategory(samples, category) ==
    LET Count(c) == Cardinality({i \in 1..Len(samples) : category[samples[i]] = c})
    IN  [boolean |-> Count("boolean"), number |-> Count("number"),
         date |-> Count("date"), string |-> Count("string")]

\* the forEach of analyzeFieldType: each sample is counted under its category
\* (equal samples fall under the same category, which is computed once)
CountSamples(samples, zone, impl) ==
    CountByCategory(samples,
        [v \in {samples[i] : i \in 1..Len(samples)} |-> Classify(v, zone, impl)])

\* the return statements of analyzeFieldType: the first category, in the order
\* boolean, number, date, that reaches the threshold, else string; details is
\* "<count>/<total> <type> values"; a profile of type null has no examples
ProfileOf(samples, analysis) ==
    LET total == Len(samples)
        Profile(type, count) ==
            [type |-> type, count |-> count, total |-> total,
             hasExamples |-> TRUE,
             examples |-> SubSeq(samples, 1, IF total < 3 THEN total ELSE 3)]
    IN  IF ReachesThreshold(analysis.boolean, total)
        THEN Profile("boolean", analysis.boolean)
        ELSE IF ReachesThreshold(analysis.number, total)
        THEN Profile("number", analysis.number)
        ELSE IF ReachesThreshold(analysis.date, total)
        THEN Profile("date", analysis.date)
        ELSE Profile("string", analysis.string)

AnalyzeSamples(samples, zone, impl) ==
    IF Len(samples) = 0
    THEN [type |-> "null", count |-> 0, total |-> 0,
          hasExamples |-> FALSE, examples |-> <<>>]
    ELSE ProfileOf(samples, CountSamples(samples, zone, impl))

analyzeFieldType(list, f, zone, impl) ==
    AnalyzeSamples(Samples(list, f), zone, impl)

\* validateCondition: threw when fieldAnalysis.examples.join is called on a
\* profile without examples (a TypeError), warned when a warning is printed
validateCondition(cond, analysis, zone, impl) ==
    LET type == analysis.type
        lower == toLowerCase(cond)
        warns ==
            CASE type = "boolean" ->
                    ~(lower = <<"t","r","u","e">> \/ lower = <<"f","a","l","s","e">>)
              [] type = "number" -> ~NumericMatch(cond).matched
              [] type = "date" ->
                    IF IsRangeCondition(cond)
                    THEN \/ ~DateParse(split(cond)[1], zone, impl).ok
                         \/ ~DateParse(split(cond)[2], zone, impl).ok
                    ELSE ~DateParse(cond, zone, impl).ok
              [] OTHER -> FALSE
    IN  IF ~analysis.hasExamples
        THEN [threw |-> TRUE, warned |-> FALSE]
        ELSE [threw |-> FALSE, warned |-> warns]

(***************************************************************************)
(* The strings an operation hands to the date parser that lie outside the  *)
(* defined format, for which the implementation's heuristics must answer.  *)
(***************************************************************************)
NonIso(strings) == {s \in strings : ~IsIsoString(s)}

\* the strings of the field's non-null values
FieldStrings(list, f) ==
    {Get(list[i], f).s : i \in {j \in 1..Len(list) : Get(list[j], f).t = "string"}}

ConditionStrings(cond) ==
    {cond} \cup (IF IsRangeCondition(cond)
                 THEN {split(cond)[1], split(cond)[2]} ELSE {})

AnalyzeNeeds(list, f) ==
    {s \in NonIso(FieldStrings(list, f)) : MatchesDatePattern(s)}
ValidateNeeds(cond, analysis) ==
    IF analysis.type = "date" THEN NonIso(ConditionStrings(cond)) ELSE {}
FilterNeeds(list, f, cond, analysis) ==
    IF analysis.type = "date"
    THEN NonIso(FieldStrings(list, f) \cup ConditionStrings(cond))
    ELSE {}


(***************************************************************************)
(* Result files.  A file of the result directory is named by the counter   *)
(* in parentheses after the run's base name (0: no counter) and by its     *)
(* extension.                                                              *)
(***************************************************************************)
File(n, ext) == [n |-> n, ext |-> ext]

\* generateUniqueFilename(directory, basePattern, extension)
generateUniqueFilename(dir, ext) ==
    IF File(0, ext) \notin dir THEN File(0, ext)
    ELSE LET numbers == {f.n : f \in {g \in dir : g.ext = ext}}
             maxNumber == CHOOSE m \in numbers : \A k \in numbers : k <= m
         IN  File(maxNumber + 1, ext)

\* jsonFilename.replace('.json', '.csv')
CsvName(jsonFile) == File(jsonFile.n, "csv")

(***************************************************************************)
(* State.                                                                  *)
(***************************************************************************)
VARIABLES
    pc,              \* where the run (or the call under test) stands
    inputExists,     \* fs.existsSync(inputPath)
    items,           \* data.items of the input file
    field,           \* --f
    condition,       \* the condition argument
    tz,              \* the process's local time, minutes east of UTC
    dateImpl,        \* the implementation's answers for non-format date strings
    fieldAnalysis,   \* what analyzeFieldType returned
    warned,          \* validateCondition printed a warning
    filteredItems,   \* what filterItems returned
    result,          \* the MiningResult object
    resultDir,       \* the files of the result directory
    outcome          \* how the run ended

\* the state of a mining run
miningVars == <<pc, inputExists, items, field, condition, tz, dateImpl,
                fieldAnalysis, warned, filteredItems, result, resultDir, outcome>>

VARIABLES
    csvPc,           \* where the call of generateCSV stands
    csvItems,        \* consolidatedResult.items
    csvContent       \* the text written to the CSV file

csvVars == <<csvPc, csvItems, csvContent>>

\* no CSV export takes part in the run
CsvIdle ==
    /\ csvPc = "idle"
    /\ csvItems = <<>>
    /\ csvContent = <<>>

VARIABLES
    responsesDir,    \* the page files of the responses directory: name -> items
    outputsDir,      \* the consolidated files of the result directory
    searchPc,        \* where the search run stands
    runNo,           \* how many search runs have started
    runsAllowed,     \* how many search runs the user starts
    pageCap,         \* the request at which the server runs out of profiles
    baseName,        \* the run's base name
    consolidate,     \* the run's --c option
    requestCount,    \* requests made by the run
    totalProfiles,   \* data.total of the run's first response
    fetchedProfiles, \* items received by the run
    searchOffset,    \* offset
    searchRequests,  \* the offsets the run has requested, in order
    upstreamTotal,   \* the records of an upstream that pages them faithfully
    searchOutcome    \* how the last run ended

searchVars == <<responsesDir, outputsDir, searchPc, runNo, runsAllowed, pageCap,
                baseName, consolidate, requestCount, totalProfiles,
                fetchedProfiles, searchOffset, searchRequests, upstreamTotal,
                searchOutcome>>

\* upstreamTotal of an upstream that answers as it likes
AnyUpstream == -1

\* a directory without files
EmptyDir == [f \in {} |-> <<>>]

\* no search takes part in the run
SearchIdle ==
    /\ responsesDir = EmptyDir
    /\ outputsDir = EmptyDir
    /\ searchPc = "idle"
    /\ runNo = 0
    /\ runsAllowed = 0
    /\ pageCap = 0
    /\ baseName = <<>>
    /\ consolidate = FALSE
    /\ requestCount = 0
    /\ totalProfiles = 0
    /\ fetchedProfiles = 0
    /\ searchOffset = 0
    /\ searchRequests = <<>>
    /\ upstreamTotal = AnyUpstream
    /\ searchOutcome = "none"

VARIABLES
    tokenValid,      \* this.accessToken is set and isTokenExpired() is false
    productIds,      \* the trimmed non-empty lines of the products file
    csvFound,        \* the products or orders file exists
    concurrency,     \* the --concurrency option, then the parsed level
    delPc,           \* where the deletion run stands
    batchStart,      \* i of the batch loop, counted from 1
    stage,           \* where each call of deleteProduct stands
    report,          \* the deletion report
    requests,        \* the positions whose delete request was sent, in order
    refreshes,       \* the positions whose call started a token refresh
    reportFile,      \* the reports written to the result directory
    csvMoved,        \* the input file was moved to processed/
    delOutcome       \* how the deletion run ended

deleteVars == <<productIds, concurrency, delPc, batchStart, stage, report,
                requests, refreshes, csvMoved, delOutcome>>

VARIABLES
    orderLines,      \* the trimmed non-empty lines of the orders file
    orderIds,        \* the lines without the header
    ordPc,           \* where the order fetch stands
    ordIndex,        \* i of the fetch loop, counted from 1
    orders,          \* the orders received
    ordersReport,    \* the fetch report
    ordersSent,      \* the positions whose order was requested, in order
    ordersFile,      \* the result files written
    ordOutcome       \* how the order fetch ended

ordersVars == <<orderLines, orderIds, ordPc, ordIndex, orders, ordersReport,
                ordersSent, ordersFile, ordOutcome>>

bulkVars == <<tokenValid, csvFound, reportFile, deleteVars, ordersVars>>

NoDeleteReport == [total |-> 0, deleted |-> 0, failed |-> 0, skipped |-> 0,
                   invalidIds |-> <<>>, errors |-> <<>>]
NoOrdersReport == [total |-> 0, fetched |-> 0, failed |-> 0, errors |-> <<>>]

\* no deletion takes part in the run
DeleteIdle ==
    /\ productIds = <<>>
    /\ concurrency = 0
    /\ delPc = "idle"
    /\ batchStart = 0
    /\ stage = <<>>
    /\ report = NoDeleteReport
    /\ requests = <<>>
    /\ refreshes = {}
    /\ csvMoved = FALSE
    /\ delOutcome = "none"

\* no order fetch takes part in the run
OrdersIdle ==
    /\ orderLines = <<>>
    /\ orderIds = <<>>
    /\ ordPc = "idle"
    /\ ordIndex = 0
    /\ orders = <<>>
    /\ ordersReport = NoOrdersReport
    /\ ordersSent = <<>>
    /\ ordersFile = <<>>
    /\ ordOutcome = "none"

\* neither bulk operation takes part in the run
BulkIdle ==
    /\ tokenValid = FALSE
    /\ csvFound = FALSE
    /\ reportFile = <<>>
    /\ DeleteIdle
    /\ OrdersIdle

VARIABLES
    listPc,          \* where the invocation of listIncompleteOrders stands
    listRun,         \* how many invocations have started
    serverTotal,     \* the INCOMPLETE orders the server holds
    saved,           \* the progress the invocation started from
    listOffset,      \* offset
    listTotal,       \* total, NullTotal for null
    listFetched,     \* fetched
    listPage,        \* page
    listAttempt,     \* attempt
    activeCsvPath,   \* activeCsvPath, a file named after the invocation
    progressFile,    \* incomplete_orders_progress.json
    listDir,         \* the CSV files of the result directory
    listRequests,    \* the offsets requested, with the invocation that did
    prevOutcome,     \* how the invocation before this one ended
    listEnv,         \* this.environment of the invocation
    pageRequests,    \* requests the invocation has made for its page
    listWaits,       \* the waits it has made between them, in seconds
    listOutcome      \* how this invocation ended

listVars == <<listPc, listRun, serverTotal, saved, listOffset, listTotal,
              listFetched, listPage, listAttempt, activeCsvPath, progressFile, listDir, listRequests,
              prevOutcome, listEnv, pageRequests, listWaits, listOutcome>>

NullTotal == -1
NoProgress == [exists |-> FALSE, offset |-> 0, total |-> NullTotal,
               fetched |-> 0, page |-> 1, csvPath |-> 0]

\* no listing takes part in the run
ListIdle ==
    /\ listPc = "idle"
    /\ listRun = 0
    /\ serverTotal = 0
    /\ saved = NoProgress
    /\ listOffset = 0
    /\ listTotal = NullTotal
    /\ listFetched = 0
    /\ listPage = 1
    /\ listAttempt = 0
    /\ activeCsvPath = 0
    /\ progressFile = NoProgress
    /\ listDir = EmptyDir
    /\ listRequests = {}
    /\ prevOutcome = "none"
    /\ listEnv = "none"
    /\ pageRequests = 0
    /\ listWaits = <<>>
    /\ listOutcome = "none"

VARIABLES
    hasToken,        \* this.accessToken is set
    ttl,             \* seconds from now to this.tokenExpiresAt, -1 when past
    tokPc,           \* where the command's next outbound call stands
    site,            \* the command: search, delete, order or listing
    tokAttempt,      \* attempt of the listing's retry loop
    tokCalls,        \* requests issued so far
    tokIssued        \* the token state the last request was issued with

tokenVars == <<hasToken, ttl, tokPc, site, tokAttempt, tokCalls, tokIssued>>

NoRequest == [sent |-> FALSE, retry |-> 0, hasToken |-> FALSE, ttl |-> 0]

\* no token clock takes part in the run
TokenIdle ==
    /\ hasToken = FALSE
    /\ ttl = 0
    /\ tokPc = "off"
    /\ site = "none"
    /\ tokAttempt = 0
    /\ tokCalls = 0
    /\ tokIssued = NoRequest

VARIABLES
    nameDir,         \* the names of the files of a directory
    namePc,          \* where the call of generateUniqueFilename stands
    nameReturned     \* the name it returned

nameVars == <<nameDir, namePc, nameReturned>>

\* no file naming takes part in the run
NamesIdle ==
    /\ nameDir = {}
    /\ namePc = "off"
    /\ nameReturned = <<>>

\* the state the other operations of the program work on, and its value in
\* a run they take no part in
laterVars == <<csvVars, searchVars, bulkVars, listVars, tokenVars, nameVars>>
LaterIdle ==
    CsvIdle /\ SearchIdle /\ BulkIdle /\ ListIdle /\ TokenIdle /\ NamesIdle

vars == <<miningVars, laterVars>>

NoAnalysis == [type |-> "none", count |-> 0, total |-> 0,
               hasExamples |-> FALSE, examples |-> <<>>]
NoResult == [written |-> FALSE, file |-> [n |-> 0, ext |-> "none"],
             type |-> "none", originalCount |-> 0, filteredCount |-> 0,
             items |-> <<>>]
EmptyImpl == [s \in {} |-> InvalidDate]

\* no mining takes part in the run
MiningIdle ==
    /\ pc = "idle"
    /\ inputExists = FALSE
    /\ items = <<>>
    /\ field = "a"
    /\ condition = <<>>
    /\ tz = 0
    /\ dateImpl = EmptyImpl
    /\ fieldAnalysis = NoAnalysis
    /\ warned = FALSE
    /\ filteredItems = <<>>
    /\ result = NoResult
    /\ resultDir = {}
    /\ outcome = "running"

(***************************************************************************)
(* The inputs the model draws.                                             *)
(***************************************************************************)
STrue == <<"t","r","u","e">>
SFalse == <<"f","a","l","s","e">>
SNull == <<"n","u","l","l">>
SUndefined == <<"u","n","d","e","f","i","n","e","d">>
SJun15 == <<"2","0","2","1","-","0","6","-","1","5">>
SJun16 == <<"2","0","2","1","-","0","6","-","1","6">>
SJan01 == <<"2","0","2","1","-","0","1","-","0","1">>
SDec31 == <<"2","0","2","1","-","1","2","-","3","1">>
SJun15Late == SJun15 \o <<"T","2","3",":","5","9",":","0","0","Z">>
SJun15Local == SJun15 \o <<"T","0","0",":","3","0",":","0","0">>
SDec31Noon == SDec31 \o <<"T","1","2",":","0","0",":","0","0","Z">>
SSlashDate == <<"0","6","/","1","5","/","2","0","2","1">>
S50abc == <<"5","0","a","b","c">>
SGt10 == <<">","1","0">>

\* n/1000 as a fixed-point number
Milli(n) == (n * Scale) \div 1000

TZOffsets == {0 - 180, 0, 60}

\* what an implementation may answer for a string outside the defined format
LegacyOutcomes == {InvalidDate, IsoParse(SJun15 \o <<"T","1","2",":","0","0",":","0","0","Z">>, 0)}

FieldTypes == {"null", "boolean", "number", "date", "string"}

MixedValues ==
    {JNull, JUndefined, JBool(TRUE), JBool(FALSE),
     JNum(Milli(50000)), JNum(Milli(49999)), JNum(Milli(0 - 5000)),
     JStr(<<"T","r","u","e">>), JStr(S50abc), JStr(<<"5">>), JStr(SNull),
     JStr(<<>>), JStr(SJun15), JStr(<<"P","e","d","r","o">>)}
NumberValues ==
    {JNum(0), JNum(Milli(10000)), JNum(Milli(1500)), JStr(<<"1","5">>),
     JStr(<<"-","5">>), JStr(<<"4","9",".","9","9","9">>), JStr(<<" ","5","0">>),
     JStr(<<".","5">>), JStr(<<"1","e","2">>), JStr(<<"5","0"," ","x">>)}
DateValues ==
    {JStr(SJan01), JStr(SDec31), JStr(SJun16), JStr(SJun15Late),
     JStr(SJun15Local), JStr(SDec31Noon), JStr(SSlashDate), JNum(0)}

ValuesFor(type) ==
    MixedValues \cup (IF type = "number" THEN NumberValues ELSE {})
                \cup (IF type = "date" THEN DateValues ELSE {})

\* every string of [><=] of length at most n
RECURSIVE OpStrings(_)
OpStrings(n) ==
    IF n = 0 THEN {<<>>}
    ELSE OpStrings(n - 1)
           \cup {Append(s, c) : s \in OpStrings(n - 1), c \in OpChars}

Literals ==
    {<<"5","0">>, <<"0">>, <<"1","0">>, <<"5">>, <<"-","5">>,
     <<"4","9",".","9","9","9">>, <<"5",".">>, <<".","5">>, <<>>, <<"5","a">>}

\* an operator prefix, optional white space and a literal
NumberConditions ==
    {o \o w \o l : o \in OpStrings(MaxOpLen), w \in {<<>>, <<" ">>}, l \in Literals}

MixedConditions ==
    {<<>>, STrue, <<"F","A","L","S","E">>, SNull, <<"U","n","d","e","f","i","n","e","d">>,
     <<"p","e","d">>, <<"n","u","l">>, <<"5">>, SGt10, <<">","=","5","0">>, <<"<","0">>, <<"r","u">>,
     SJun15, SJan01 \o <<" ">> \o SDec31, <<"a"," ","b">>}
DateConditions ==
    {SJun16, SJun15Late, SJun15Local, SSlashDate,
     SJun15 \o <<" ">> \o SJun15, SDec31 \o <<" ">> \o SJan01,
     SJan01 \o <<" ">> \o SDec31Noon, SJun15 \o <<" ">> \o SSlashDate,
     SJun15 \o <<" ">> \o <<"x">>, SJan01 \o <<" ">> \o SDec31 \o <<" ">>}

ConditionsFor(type) ==
    MixedConditions \cup (IF type = "number" THEN NumberConditions ELSE {})
                    \cup (IF type = "date" THEN DateConditions ELSE {})

\* the record number i holding value v under "a" (no key when v is undefined)
Rec(i, v) ==
    IF v.t = "undefined" THEN [id |-> JNum(i * Scale)]
    ELSE [id |-> JNum(i * Scale), a |-> v]


(***************************************************************************)
(* SpecEval: filterItems called on a one-record list with a profile of     *)
(* each type.                                                              *)
(***************************************************************************)
GivenProfile(type) ==
    [type |-> type, count |-> 0, total |-> 0,
     hasExamples |-> type # "null", examples |-> <<>>]

InitEval ==
    /\ pc = "call"
    /\ inputExists = TRUE
    /\ \E type \in FieldTypes :
          /\ fieldAnalysis = GivenProfile(type)
          /\ \E v \in ValuesFor(type) : items = <<Rec(1, v)>>
          /\ condition \in ConditionsFor(type)
    /\ field = "a"
    /\ tz \in TZOffsets
    /\ dateImpl = EmptyImpl
    /\ warned = FALSE
    /\ filteredItems = <<>>
    /\ result = NoResult
    /\ resultDir = {}
    /\ outcome = "running"
    /\ LaterIdle

\* one call of filterItems; the implementation answers for the non-format
\* strings the call may hand to the date parser
FilterItemsCall ==
    /\ pc = "call"
    /\ \E ext \in [FilterNeeds(items, field, condition, fieldAnalysis)
                     \ DOMAIN dateImpl -> LegacyOutcomes] :
          LET impl == ext @@ dateImpl
          IN  /\ dateImpl' = impl
              /\ filteredItems' =
                     filterItems(items, field, condition, fieldAnalysis, tz, impl)
    /\ pc' = "returned"
    /\ UNCHANGED <<inputExists, items, field, condition, tz, fieldAnalysis,
                   warned, result, resultDir, outcome>>

NextEval == FilterItemsCall /\ UNCHANGED laterVars

SpecEval == InitEval /\ [][NextEval]_vars

\* the value and the verdict of the call under test
EvalValue == Get(items[1], field)
Selected == Len(filteredItems) = 1
Returned == pc = "returned"


(***************************************************************************)
(* Reference readings used by the properties of the filters: the operators *)
(* the condition grammar names, and the numbers the drawn literals and     *)
(* values denote, written out one by one.                                  *)
(***************************************************************************)
GrammarOps == {<<>>, <<">">>, <<"<">>, <<">","=">>, <<"<","=">>, <<"=">>}

\* v op k, with the empty operator read as =
OpHolds(op, v, k) ==
    CASE op = <<">">> -> v > k
      [] op = <<"<">> -> v < k
      [] op = <<">","=">> -> v >= k
      [] op = <<"<","=">> -> v <= k
      [] OTHER -> v = k

\* <<literal, the number it denotes>> for the literals -?digits[.digits]
LiteralValues ==
    {<< <<"5","0">>, Milli(50000) >>, << <<"0">>, 0 >>,
     << <<"1","0">>, Milli(10000) >>, << <<"5">>, Milli(5000) >>,
     << <<"-","5">>, Milli(0 - 5000) >>,
     << <<"4","9",".","9","9","9">>, Milli(49999) >>,
     << <<"5",".">>, Milli(5000) >>}

\* <<value, the number it denotes>> for the values that are numbers
NumericValues ==
    {<< JNum(Milli(50000)), Milli(50000) >>, << JNum(Milli(49999)), Milli(49999) >>,
     << JNum(Milli(0 - 5000)), Milli(0 - 5000) >>, << JNum(0), 0 >>,
     << JNum(Milli(10000)), Milli(10000) >>, << JNum(Milli(1500)), Milli(1500) >>,
     << JStr(<<"5">>), Milli(5000) >>, << JStr(<<"1","5">>), Milli(15000) >>,
     << JStr(<<"-","5">>), Milli(0 - 5000) >>,
     << JStr(<<"4","9",".","9","9","9">>), Milli(49999) >>,
     << JStr(<<" ","5","0">>), Milli(50000) >>, << JStr(<<".","5">>), Milli(500) >>,
     << JStr(<<"1","e","2">>), Milli(100000) >>}

\* case-insensitive containment of the condition in the value's string form
ContainsIgnoringCase(value, cond) ==
    includes(toLowerCase(String(value)), toLowerCase(cond))

\* C1: for a number-typed field, a condition [op]k (op one of > < >= <= =, or
\* absent and then read as =; optional white space before k) applied to a
\* value v that is a number selects the record exactly when v op k holds.
C1_NumericComparison ==
    (Returned /\ fieldAnalysis.type = "number") =>
        \A op \in GrammarOps, w \in {<<>>, <<" ">>},
           lk \in LiteralValues, nv \in NumericValues :
            (condition = op \o w \o lk[1] /\ EvalValue = nv[1])
                => (Selected <=> OpHolds(op, nv[2], lk[2]))

\* C1 witness: 49.999 against ">=50" has been evaluated and is not selected
C1_Witness ==
    /\ Returned
    /\ fieldAnalysis.type = "number"
    /\ EvalValue = JNum(Milli(49999))
    /\ condition = <<">","=","5","0">>
    /\ ~Selected

\* the type-specific parse of the condition did not succeed
ConditionParseFailed ==
    CASE fieldAnalysis.type = "boolean" ->
            toLowerCase(condition) \notin {STrue, SFalse}
      [] fieldAnalysis.type = "number" -> ~NumericMatch(condition).matched
      [] fieldAnalysis.type = "date" ->
            /\ ~DateParse(condition, tz, dateImpl).ok
            /\ ~(/\ IsRangeCondition(condition)
                 /\ DateParse(split(condition)[1], tz, dateImpl).ok
                 /\ DateParse(split(condition)[2], tz, dateImpl).ok)
      [] OTHER -> TRUE

\* C3: for every field type and every condition (the empty one included) the
\* evaluation of one record value ends with a boolean verdict (the record is
\* kept or dropped), and when the type-specific parse of the condition fails
\* the verdict on a non-null value is the case-insensitive containment of the
\* condition in the value's string form.
C3_FallbackIsSubstring ==
    Returned =>
        /\ filteredItems \in {<<>>, items}
        /\ (~IsNullish(EvalValue) /\ ConditionParseFailed)
               => (Selected <=> ContainsIgnoringCase(EvalValue, condition))

\* C3 witness: a number-typed evaluation whose condition is not numeric fell
\* back to a containment that holds only when case is ignored
C3_Witness ==
    /\ Returned
    /\ fieldAnalysis.type = "number"
    /\ EvalValue = JStr(<<"P","e","d","r","o">>)
    /\ condition = <<"p","e","d">>
    /\ Selected

\* the tokens of the drawn range conditions
RangeTokens == {SJan01, SDec31, SJun15, SDec31Noon, SSlashDate, <<"x">>}

\* a <= b on instants, by seconds and then milliseconds
NotAfter(a, b) == a.s < b.s \/ (a.s = b.s /\ a.ms <= b.ms)

\* C5: for a date-typed field and a condition "start end", when start, end
\* and the value all parse, the record is selected exactly when
\* start <= value <= end; a value equal to either token is selected.
C5_DateRangeInclusive ==
    (Returned /\ fieldAnalysis.type = "date" /\ ~IsNullish(EvalValue)) =>
        \A a \in RangeTokens, b \in RangeTokens :
            LET start == DateParse(a, tz, dateImpl)
                end == DateParse(b, tz, dateImpl)
                item == NewDate(EvalValue, tz, dateImpl)
            IN  (condition = a \o <<" ">> \o b /\ start.ok /\ end.ok /\ item.ok)
                    => /\ Selected <=> (NotAfter(start, item) /\ NotAfter(item, end))
                       /\ (EvalValue \in {JStr(a), JStr(b)} /\ NotAfter(start, end))
                              => Selected

\* C5 witness: a value equal to the end token of its range has been selected
C5_Witness ==
    /\ Returned
    /\ fieldAnalysis.type = "date"
    /\ EvalValue = JStr(SDec31Noon)
    /\ condition = SJan01 \o <<" ">> \o SDec31Noon
    /\ Selected

\* the strings of the defined format among the drawn ones, and the calendar
\* day each is written with
WrittenDay(s) == SubSeq(s, 1, 10)

\* C6: for a date-typed field and a single-date condition the record is
\* selected exactly when the value's calendar day is the condition's,
\* whatever the time of day and whatever the process's timezone.
C6_SameCalendarDay ==
    (/\ Returned
     /\ fieldAnalysis.type = "date"
     /\ EvalValue.t = "string"
     /\ IsIsoString(EvalValue.s)
     /\ IsIsoString(condition))
        => (Selected <=> WrittenDay(EvalValue.s) = WrittenDay(condition))

\* C7: whatever the field type, a record whose value is null or absent is
\* selected exactly when the condition is "null" or "undefined", case ignored.
C7_NullHandling ==
    (Returned /\ IsNullish(EvalValue)) =>
        (Selected <=> toLowerCase(condition) \in {SNull, SUndefined})

\* C7 witness: an absent value under a date-typed field, condition "Undefined"
C7_Witness ==
    /\ Returned
    /\ fieldAnalysis.type = "date"
    /\ EvalValue = JUndefined
    /\ condition = <<"U","n","d","e","f","i","n","e","d">>
    /\ Selected

\* C8: for a number-typed field, a value that is not wholly a number is not
\* compared numerically: against a well-formed numeric condition the verdict
\* is the containment of the condition in the value ("50abc" against ">10"
\* is not selected).
C8_PartialNumberFallsBack ==
    (/\ Returned
     /\ fieldAnalysis.type = "number"
     /\ EvalValue.t = "string"
     /\ \A nv \in NumericValues : EvalValue # nv[1]
     /\ \E op \in GrammarOps, w \in {<<>>, <<" ">>}, lk \in LiteralValues :
            condition = op \o w \o lk[1])
        => (Selected <=> ContainsIgnoringCase(EvalValue, condition))

\* C9: a condition whose operator prefix is a string of > < = other than the
\* five operators is not a numeric condition: its verdict is the containment
\* of the condition in the value, never a numeric comparison.
C9_OnlyGrammarOperators ==
    (/\ Returned
     /\ fieldAnalysis.type = "number"
     /\ ~IsNullish(EvalValue)
     /\ \E op \in OpStrings(MaxOpLen) \ GrammarOps, w \in {<<>>, <<" ">>},
           lk \in LiteralValues : condition = op \o w \o lk[1])
        => (Selected <=> ContainsIgnoringCase(EvalValue, condition))


(***************************************************************************)
(* SpecAnalyze: analyzeFieldType called on record lists made of three runs *)
(* of equal values, long enough to pass the sample cap.                    *)
(***************************************************************************)
RunValues ==
    {JBool(TRUE), JStr(<<"5">>), JStr(<<"x">>), JNull, JStr(SJun15), JStr(SSlashDate)}
\* lengths of the head, body and tail runs: 3 + 7 is exactly 70%, 9 + 4 just
\* below it, 31 + 100 cut at the cap leaves 69 of 100
HeadLengths == {0, 3, 4, 9, 31}
BodyLengths == {0, 7, 100}
TailLengths == {0, 4, 100}

\* n records holding v, numbered from first + 1
Run(v, n, first) == [i \in 1..n |-> Rec(first + i, v)]

InitAnalyze ==
    /\ pc = "analyzeCall"
    /\ inputExists = TRUE
    /\ \E v1 \in RunValues, v2 \in RunValues, v3 \in RunValues,
          n1 \in HeadLengths, n2 \in BodyLengths, n3 \in TailLengths :
          items = Run(v1, n1, 0) \o Run(v2, n2, n1) \o Run(v3, n3, n1 + n2)
    /\ field = "a"
    /\ condition = STrue
    /\ tz = 0
    /\ dateImpl = EmptyImpl
    /\ fieldAnalysis = NoAnalysis
    /\ warned = FALSE
    /\ filteredItems = <<>>
    /\ result = NoResult
    /\ resultDir = {}
    /\ outcome = "running"
    /\ LaterIdle

\* one call of analyzeFieldType
AnalyzeCall ==
    /\ pc = "analyzeCall"
    /\ \E ext \in [AnalyzeNeeds(items, field) \ DOMAIN dateImpl -> LegacyOutcomes] :
          LET impl == ext @@ dateImpl
          IN  /\ dateImpl' = impl
              /\ fieldAnalysis' = analyzeFieldType(items, field, tz, impl)
    /\ pc' = "analyzed"
    /\ UNCHANGED <<inputExists, items, field, condition, tz, warned,
                   filteredItems, result, resultDir, outcome>>

NextAnalyze == AnalyzeCall /\ UNCHANGED laterVars

SpecAnalyze == InitAnalyze /\ [][NextAnalyze]_vars

\* the category of each drawn value, written out
RunCategory(v) ==
    CASE v = JBool(TRUE) -> "boolean"
      [] v = JStr(<<"5">>) -> "number"
      [] v = JStr(SJun15) -> "date"
      [] v = JStr(SSlashDate) ->
            IF SSlashDate \in DOMAIN dateImpl /\ dateImpl[SSlashDate].ok
            THEN "date" ELSE "string"
      [] OTHER -> "string"

\* the first 100 non-null values of the field, in record order
FirstHundred ==
    LET values == [i \in 1..Len(items) |-> Get(items[i], field)]
        Present(v) == v.t \notin {"null", "undefined"}
        present == SelectSeq(values, Present)
    IN  SubSeq(present, 1, IF Len(present) < 100 THEN Len(present) ELSE 100)

HowMany(samples, c) ==
    Cardinality({i \in 1..Len(samples) : RunCategory(samples[i]) = c})

MineValues ==
    {JUndefined, JNull, JStr(<<"5">>), JStr(<<"1","5">>), JStr(<<"2","5">>),
     JBool(TRUE), JStr(SJun15Late)}
MineConditions == {SGt10, SNull, STrue, <<"5">>, <<"x">>, SJun15}
MineFields == {"a", "b"}

\* the record lists of length k
ListsOfLength(k) ==
    {[i \in 1..k |-> Rec(i, vs[i])] : vs \in [1..k -> MineValues]}

ItemLists == UNION {ListsOfLength(k) : k \in 0..MaxItems}

\* the result directories a run may start in
StartDirs == {{}, {File(0, "json"), File(0, "csv"), File(2, "json")}}

Init ==
    /\ pc = "load"
    /\ inputExists \in BOOLEAN
    /\ items \in IF inputExists THEN ItemLists ELSE {<<>>}
    /\ field \in MineFields
    /\ condition \in MineConditions
    /\ tz \in {0, 60}
    /\ dateImpl = EmptyImpl
    /\ fieldAnalysis = NoAnalysis
    /\ warned = FALSE
    /\ filteredItems = <<>>
    /\ result = NoResult
    /\ resultDir \in StartDirs
    /\ outcome = "running"
    /\ LaterIdle

\* the run ends by throwing: the catch block of mineData rethrows
Fail(error) ==
    /\ pc' = "failed"
    /\ outcome' = error

\* existsSync(inputPath), JSON.parse(readFileSync(...)), items.length === 0
Load ==
    /\ pc = "load"
    /\ IF ~inputExists THEN Fail("InputNotFound")
       ELSE IF Len(items) = 0 THEN pc' = "done" /\ outcome' = "noItems"
       ELSE pc' = "checkField" /\ outcome' = outcome
    /\ UNCHANGED <<inputExists, items, field, condition, tz, dateImpl,
                   fieldAnalysis, warned, filteredItems, result, resultDir>>

\* a presence check that asks for a non-null value
hasFieldNonNull(list, f) ==
    \E i \in 1..Len(list) : ~IsNullish(Get(list[i], f))

\* items.some(item => item.hasOwnProperty(field))
hasField(list, f) == \E i \in 1..Len(list) : f \in DOMAIN list[i]

\* the field presence check of mineData
CheckField ==
    /\ pc = "checkField"
    /\ IF hasField(items, field)
       THEN pc' = "analyze" /\ outcome' = outcome
       ELSE Fail("FieldNotPresent")
    /\ UNCHANGED <<inputExists, items, field, condition, tz, dateImpl,
                   fieldAnalysis, warned, filteredItems, result, resultDir>>

\* fieldAnalysis = this.analyzeFieldType(items, field)
Analyze ==
    /\ pc = "analyze"
    /\ \E ext \in [AnalyzeNeeds(items, field) \ DOMAIN dateImpl -> LegacyOutcomes] :
          LET impl == ext @@ dateImpl
          IN  /\ dateImpl' = impl
              /\ fieldAnalysis' = analyzeFieldType(items, field, tz, impl)
    /\ pc' = "validate"
    /\ UNCHANGED <<inputExists, items, field, condition, tz, warned,
                   filteredItems, result, resultDir, outcome>>

\* this.validateCondition(field, condition, fieldAnalysis)
Validate ==
    /\ pc = "validate"
    /\ \E ext \in [ValidateNeeds(condition, fieldAnalysis) \ DOMAIN dateImpl
                     -> LegacyOutcomes] :
          LET impl == ext @@ dateImpl
              v == validateCondition(condition, fieldAnalysis, tz, impl)
          IN  /\ dateImpl' = impl
              /\ warned' = v.warned
              /\ IF v.threw THEN Fail("TypeError")
                 ELSE pc' = "filter" /\ outcome' = outcome
    /\ UNCHANGED <<inputExists, items, field, condition, tz, fieldAnalysis,
                   filteredItems, result, resultDir>>

\* the MiningResult object built from the filtered items
MiningResult(analysis, list, kept) ==
    [written |-> FALSE, file |-> [n |-> 0, ext |-> "none"],
     type |-> analysis.type, originalCount |-> Len(list),
     filteredCount |-> Len(kept), items |-> kept]

\* a zero-match test that never fires
NoneFilteredNever(kept) == FALSE

\* filteredItems.length === 0
NoneFiltered(kept) == Len(kept) = 0

\* filteredItems = this.filterItems(...); no match ends the run, otherwise the
\* result object is built
Filter ==
    /\ pc = "filter"
    /\ \E ext \in [FilterNeeds(items, field, condition, fieldAnalysis)
                     \ DOMAIN dateImpl -> LegacyOutcomes] :
          LET impl == ext @@ dateImpl
              kept == filterItems(items, field, condition, fieldAnalysis, tz, impl)
          IN  /\ dateImpl' = impl
              /\ filteredItems' = kept
              /\ IF NoneFiltered(kept)
                 THEN pc' = "done" /\ outcome' = "noMatch" /\ result' = result
                 ELSE /\ pc' = "writeJson"
                      /\ outcome' = outcome
                      /\ result' = MiningResult(fieldAnalysis, items, kept)
    /\ UNCHANGED <<inputExists, items, field, condition, tz, fieldAnalysis,
                   warned, resultDir>>

\* generateUniqueFilename and writeFileSync of the JSON result
WriteJson ==
    /\ pc = "writeJson"
    /\ resultDir' = resultDir \cup {generateUniqueFilename(resultDir, "json")}
    /\ result' = [result EXCEPT !.written = TRUE,
                                !.file = generateUniqueFilename(resultDir, "json")]
    /\ pc' = "writeCsv"
    /\ UNCHANGED <<inputExists, items, field, condition, tz, dateImpl,
                   fieldAnalysis, warned, filteredItems, outcome>>

\* generateMinedCSV: the CSV is written beside the JSON file, or the write
\* fails and the error is caught and logged; the run then reports success
WriteCsv ==
    /\ pc = "writeCsv"
    /\ \E csvWritten \in BOOLEAN :
          resultDir' =
              IF csvWritten THEN resultDir \cup {CsvName(result.file)}
              ELSE resultDir
    /\ pc' = "done"
    /\ outcome' = "success"
    /\ UNCHANGED <<inputExists, items, field, condition, tz, dateImpl,
                   fieldAnalysis, warned, filteredItems, result>>

Next ==
    \/ Load /\ UNCHANGED laterVars
    \/ CheckField /\ UNCHANGED laterVars
    \/ Analyze /\ UNCHANGED laterVars
    \/ Validate /\ UNCHANGED laterVars
    \/ Filter /\ UNCHANGED laterVars
    \/ WriteJson /\ UNCHANGED laterVars
    \/ WriteCsv /\ UNCHANGED laterVars

Spec == Init /\ [][Next]_vars


\* filterItems has returned in this run
Filtered ==
    \/ pc \in {"writeJson", "writeCsv"}
    \/ pc = "done" /\ outcome \in {"noMatch", "success"}

\* the positions of the records whose field value satisfies the condition
Matching ==
    {i \in 1..Len(items) :
        MatchesValue(fieldAnalysis.type, Get(items[i], field), condition, tz, dateImpl)}

\* the j-th smallest position of a set of positions
NthOf(K, j) == CHOOSE i \in K : Cardinality({k \in K : k <= i}) = j

\* C4: filterItems returns exactly the records whose field value satisfies the
\* condition, unmodified and in their original order, and the MiningResult
\* carries originalCount = number of input records and filteredCount = number
\* of returned records; values "5","15","25" with ">10" are inferred as number
\* and yield the records "15","25" with filteredCount 2 and originalCount 3.
C4_FilterKeepsMatchingInOrder ==
    Filtered =>
        /\ Len(filteredItems) = Cardinality(Matching)
        /\ \A j \in 1..Len(filteredItems) : filteredItems[j] = items[NthOf(Matching, j)]
        /\ result # NoResult =>
              /\ result.originalCount = Len(items)
              /\ result.filteredCount = Len(filteredItems)
              /\ result.items = filteredItems
        /\ (/\ items = <<Rec(1, JStr(<<"5">>)), Rec(2, JStr(<<"1","5">>)),
                         Rec(3, JStr(<<"2","5">>))>>
            /\ field = "a"
            /\ condition = SGt10)
              => /\ fieldAnalysis.type = "number"
                 /\ filteredItems = <<items[2], items[3]>>
                 /\ result.originalCount = 3
                 /\ result.filteredCount = 2

\* C4 witness: the run over "5","15","25" with ">10" has ended in success
C4_Witness ==
    /\ pc = "done"
    /\ outcome = "success"
    /\ items = <<Rec(1, JStr(<<"5">>)), Rec(2, JStr(<<"1","5">>)),
                 Rec(3, JStr(<<"2","5">>))>>
    /\ condition = SGt10
    /\ result.filteredCount = 2

\* C10: when the field is present on some record but every value of it is
\* null or undefined, the run does not fail: it goes on to filter, and the
\* condition "null" selects every record (all of them are null or absent).
C10_AllNullFieldIsMined ==
    (/\ pc \in {"done", "failed"}
     /\ inputExists
     /\ \E i \in 1..Len(items) : field \in DOMAIN items[i]
     /\ \A i \in 1..Len(items) : IsNullish(Get(items[i], field)))
        => /\ outcome \in {"noMatch", "success"}
           /\ toLowerCase(condition) = SNull => filteredItems = items

\* process.exit(1) in the catch block of the mineResult command
exitCode == IF pc = "failed" THEN 1 ELSE 0

\* no analysis, no filtering and no output have taken place
NothingMined ==
    /\ fieldAnalysis = NoAnalysis
    /\ filteredItems = <<>>
    /\ result = NoResult

\* some record of the loaded set has the field as a key
SomeRecordHasKey == \E i \in 1..Len(items) : field \in DOMAIN items[i]

\* C11 (as stated): a run fails with InputNotFound, nothing analysed or
\* filtered, when the input file does not exist, and fails with
\* FieldNotPresent whenever no record of the loaded set has the field as a
\* key; a record holding null under the field has it.
C11_MissingInputOrFieldAlways ==
    /\ (pc # "load" /\ ~inputExists)
          => pc = "failed" /\ outcome = "InputNotFound" /\ exitCode = 1
             /\ NothingMined
    /\ (pc \notin {"load", "checkField"} /\ inputExists)
          => (~SomeRecordHasKey
                <=> pc = "failed" /\ outcome = "FieldNotPresent" /\ exitCode = 1
                    /\ NothingMined)

\* C11 (amended): a run fails with InputNotFound, nothing analysed or
\* filtered, when the input file does not exist, and fails with
\* FieldNotPresent whenever the loaded set is not empty and no record of it
\* has the field as a key; a record holding null under the field has it.  A
\* run over an empty set ends with a warning, without failing.
C11_MissingInputOrField ==
    /\ (pc # "load" /\ ~inputExists)
          => pc = "failed" /\ outcome = "InputNotFound" /\ exitCode = 1
             /\ NothingMined
    /\ (pc \notin {"load", "checkField"} /\ inputExists /\ Len(items) > 0)
          => (~SomeRecordHasKey
                <=> pc = "failed" /\ outcome = "FieldNotPresent" /\ exitCode = 1
                    /\ NothingMined)
    /\ (pc # "load" /\ inputExists /\ Len(items) = 0)
          => pc = "done" /\ outcome = "noItems" /\ exitCode = 0 /\ NothingMined

\* C11 witness: a run over two records, neither holding the key, has failed
C11_Witness ==
    /\ pc = "failed"
    /\ outcome = "FieldNotPresent"
    /\ field = "a"
    /\ Len(items) = 2

\* C12: when filtering selects no record the run reports it and ends, and
\* the result directory changes only in the two write steps, which a run
\* reaches only with at least one record selected; the input file is never
\* modified.
C12_NoMatchWritesNothing ==
    /\ []((Filtered /\ Len(filteredItems) = 0)
            => pc = "done" /\ outcome = "noMatch" /\ result = NoResult)
    /\ [][resultDir' # resultDir
            => pc \in {"writeJson", "writeCsv"} /\ Len(filteredItems) > 0]_vars
    /\ [][items' = items /\ inputExists' = inputExists]_vars

\* C12 witness: a run over three records has ended with no match
C12_Witness ==
    /\ pc = "done"
    /\ outcome = "noMatch"
    /\ Len(items) = 3
    /\ resultDir # {}

\* C13: a run that ends in success has written both the JSON result and the
\* CSV of the same base name; a failed CSV write makes the run fail.
C13_SuccessHasBothFiles ==
    (pc = "done" /\ outcome = "success")
        => /\ result.written
           /\ result.file \in resultDir
           /\ CsvName(result.file) \in resultDir


(***************************************************************************)
(* generateCSV: the text of the CSV file written for a record set.         *)
(***************************************************************************)
\* longest text of a generated string cell
MaxCellLen == 3

\* the keys a record can hold, in the order Array.prototype.sort() gives them
KeyOrder == <<"a", "b", "id">>
KeyText(k) == IF k = "id" THEN <<"i", "d">> ELSE <<k>>

\* Array.from(allFields).sort(): the union of the records' keys, sorted
SortedFields(list) ==
    LET allFields == UNION {DOMAIN list[i] : i \in 1..Len(list)}
        InUnion(k) == k \in allFields
    IN  SelectSeq(KeyOrder, InUnion)

\* Array.prototype.join
RECURSIVE Join(_, _)
Join(parts, sep) ==
    IF Len(parts) = 0 THEN <<>>
    ELSE IF Len(parts) = 1 THEN parts[1]
    ELSE parts[1] \o sep \o Join(Tail(parts), sep)

\* value.replace(/"/g, '""')
RECURSIVE DoubleQuotes(_)
DoubleQuotes(s) ==
    IF Len(s) = 0 THEN <<>>
    ELSE (IF Head(s) = "\"" THEN <<"\"", "\"">> ELSE <<Head(s)>>)
           \o DoubleQuotes(Tail(s))

\* a text that is wrapped in quotes only when it holds a comma or a quote
QuotedUnlessNewline(text) ==
    IF includes(text, <<",">>) \/ includes(text, <<"\"">>)
    THEN <<"\"">> \o DoubleQuotes(text) \o <<"\"">>
    ELSE text

\* the text wrapped in quotes, inner quotes doubled, when it holds a comma, a
\* quote or a newline
Quoted(text) ==
    IF includes(text, <<",">>) \/ includes(text, <<"\"">>)
       \/ includes(text, <<"\n">>)
    THEN <<"\"">> \o DoubleQuotes(text) \o <<"\"">>
    ELSE text

\* the cell of one field of one record (the values drawn are strings,
\* numbers, booleans and null; none is an object)
Cell(item, f) ==
    IF IsNullish(Get(item, f)) THEN <<>> ELSE Quoted(String(Get(item, f)))

\* the csvContent generateCSV builds: the header line, then a line per item
CsvText(list) ==
    LET Lines(fields) ==
            <<Join([j \in 1..Len(fields) |-> KeyText(fields[j])], <<",">>)>>
              \o [i \in 1..Len(list) |->
                     Join([j \in 1..Len(fields) |-> Cell(list[i], fields[j])],
                          <<",">>)]
        Text(lines) == Join(lines, <<"\n">>) \o <<"\n">>
    IN  Text(Lines(SortedFields(list)))

\* the texts of at most n characters over x , " and newline
RECURSIVE CellTexts(_)
CellTexts(n) ==
    IF n = 0 THEN {<<>>}
    ELSE CellTexts(n - 1)
           \cup {Append(t, c) : t \in CellTexts(n - 1), c \in {"x", ",", "\"", "\n"}}

\* the records that follow the first one in an exported set
OtherRecords ==
    {<<>>,
     <<[b |-> JStr(<<"x">>)]>>,
     <<[a |-> JStr(<<"\"", "\n">>), id |-> JNum(7 * Scale)]>>,
     <<[id |-> JNull], [a |-> JStr(<<",", ",">>), b |-> JBool(TRUE)]>>}

InitCsv ==
    /\ csvPc = "generate"
    /\ \E t \in CellTexts(MaxCellLen),
          more \in {<<>>, <<JNull>>, <<JStr(<<"x", ",">>)>>},
          rest \in OtherRecords :
          csvItems \in {<<>>,
                        <<IF Len(more) = 0 THEN [a |-> JStr(t)]
                          ELSE [a |-> JStr(t), b |-> more[1]]>> \o rest}
    /\ csvContent = <<>>
    /\ MiningIdle
    /\ SearchIdle
    /\ BulkIdle
    /\ ListIdle
    /\ TokenIdle
    /\ NamesIdle

\* generateCSV(consolidatedResult, jsonFilename)
GenerateCSV ==
    /\ csvPc = "generate"
    /\ IF Len(csvItems) = 0
       THEN csvPc' = "noItems" /\ csvContent' = csvContent
       ELSE csvPc' = "written" /\ csvContent' = CsvText(csvItems)
    /\ UNCHANGED csvItems

NextCsv == GenerateCSV
          /\ UNCHANGED <<miningVars, searchVars, bulkVars, listVars,
                       tokenVars, nameVars>>

SpecCsv == InitCsv /\ [][NextCsv]_vars

\* A standard CSV reader (RFC 4180, a line feed ending a record): the rows of
\* text from index i on, each row a sequence of cells [text, quoted].  mode is
\* "start" at the start of a cell, "plain" inside an unquoted cell, "quoted"
\* inside a quoted cell and "closed" after a quote seen inside a quoted cell.
\* An empty line is a row of one empty cell; text after the last line feed
\* is a row only if there is any.
RECURSIVE ReadCsv(_, _, _, _, _, _)
ReadCsv(text, i, mode, cell, row, rows) ==
    IF i > Len(text)
    THEN IF mode = "start" /\ Len(row) = 0 THEN rows
         ELSE Append(rows, Append(row, [text |-> cell, quoted |-> mode = "closed"]))
    ELSE IF mode = "quoted"
    THEN IF text[i] = "\""
         THEN ReadCsv(text, i + 1, "closed", cell, row, rows)
         ELSE ReadCsv(text, i + 1, "quoted", Append(cell, text[i]), row, rows)
    ELSE IF mode = "closed" /\ text[i] = "\""
    THEN ReadCsv(text, i + 1, "quoted", Append(cell, "\""), row, rows)
    ELSE IF mode = "start" /\ text[i] = "\""
    THEN ReadCsv(text, i + 1, "quoted", cell, row, rows)
    ELSE IF text[i] = ","
    THEN ReadCsv(text, i + 1, "start", <<>>,
                 Append(row, [text |-> cell, quoted |-> mode = "closed"]), rows)
    ELSE IF text[i] = "\n"
    THEN ReadCsv(text, i + 1, "start", <<>>, <<>>,
                 Append(rows, Append(row, [text |-> cell, quoted |-> mode = "closed"])))
    ELSE ReadCsv(text, i + 1, "plain", Append(cell, text[i]), row, rows)

\* what the reader makes of the file written
RowsRead == ReadCsv(csvContent, 1, "start", <<>>, <<>>, <<>>)

\* the keys of the exported records, sorted
ExportedKeys ==
    LET Present(k) == \E i \in 1..Len(csvItems) : k \in DOMAIN csvItems[i]
    IN  SelectSeq(KeyOrder, Present)

\* the text of a value: empty for null and for an absent key
ValueText(item, k) ==
    IF k \notin DOMAIN item \/ item[k].t = "null" THEN <<>> ELSE String(item[k])

HasDelimiter(text) ==
    \E i \in 1..Len(text) : text[i] \in {",", "\"", "\n"}

\* C14: the CSV written for a record set reads back, with a standard CSV
\* reader, as the header of the sorted union of the records' keys followed
\* by one row per record, each row with as many cells as the header and each
\* cell holding the exact text of the record's value (strings with commas,
\* quotes and newlines included); a cell is written in quotes iff its text
\* holds a comma, a double quote or a newline.
C14_CsvRoundTrips ==
    csvPc = "written" =>
        /\ Len(RowsRead) = Len(csvItems) + 1
        /\ Len(RowsRead[1]) = Len(ExportedKeys)
        /\ \A j \in 1..Len(ExportedKeys) :
              RowsRead[1][j].text = KeyText(ExportedKeys[j])
        /\ \A i \in 1..Len(csvItems) :
              /\ Len(RowsRead[i + 1]) = Len(ExportedKeys)
              /\ \A j \in 1..Len(ExportedKeys) :
                    /\ RowsRead[i + 1][j].text
                          = ValueText(csvItems[i], ExportedKeys[j])
                    /\ RowsRead[i + 1][j].quoted
                          <=> HasDelimiter(ValueText(csvItems[i], ExportedKeys[j]))

\* C14 witness: a record whose field holds a comma, a quote and a newline,
\* beside a second record with other keys, has been exported
C14_Witness ==
    /\ csvPc = "written"
    /\ Len(csvItems) = 2
    /\ csvItems[1].a = JStr(<<",", "\"", "\n">>)
    /\ DOMAIN csvItems[2] = {"a", "id"}


(***************************************************************************)
(* searchProfiles and consolidateResults.  A file name is a sequence of    *)
(* pieces: the prefix with the date, then the characters of the rest.      *)
(***************************************************************************)
\* profilesPerRequest of the model's configuration (PROFILES_LIMIT)
PageLimit == 2
\* largest number of search runs in a row
MaxRuns == 3

\* `${prefix}_${dateStr}` of the date the runs are made on
BasePattern == <<"profile_05-11-2026">>

\* String.prototype.startsWith
startsWith(name, prefix) ==
    Len(name) >= Len(prefix) /\ SubSeq(name, 1, Len(prefix)) = prefix

\* String.prototype.endsWith
endsWith(name, suffix) ==
    Len(name) >= Len(suffix)
    /\ SubSeq(name, Len(name) - Len(suffix) + 1, Len(name)) = suffix

\* the mutant: every response goes to the file of page 1
PageNameOne(base, n) == base \o <<"_", "1", ".", "json">>

\* `${baseName}_${requestCount}.json`
PageName(base, n) == base \o <<"_">> \o NatToString(n) \o <<".", "json">>

\* name matches ^prefix_\d{2}-\d{2}-\d{4}(\((\d+)\))?_\d+\.json$ from the
\* piece at index i on, i being the index after the group (\((\d+)\))?
MatchesPageTail(name, i) ==
    /\ i + 1 <= Len(name)
    /\ name[i] = "_"
    /\ DigitsEnd(name, i + 1) > i + 1
    /\ SubSeq(name, DigitsEnd(name, i + 1), Len(name)) = <<".", "json">>

\* the execution number the regular expression of generateUniqueBaseName
\* reads off a file name: [matched, number]
ExecNumber(name) ==
    LET Grouped(close) ==
            IF /\ close > 3
               /\ close <= Len(name)
               /\ name[close] = ")"
               /\ MatchesPageTail(name, close + 1)
            THEN [matched |-> TRUE, number |-> IntVal(name, 3, close)]
            ELSE [matched |-> FALSE, number |-> 0]
    IN  IF Len(name) = 0 \/ name[1] # BasePattern[1]
        THEN [matched |-> FALSE, number |-> 0]
        ELSE IF MatchesPageTail(name, 2) THEN [matched |-> TRUE, number |-> 0]
        ELSE IF Len(name) >= 2 /\ name[2] = "("
        THEN Grouped(DigitsEnd(name, 3))
        ELSE [matched |-> FALSE, number |-> 0]

\* the largest of a set of naturals, 0 for the empty set
Max(S) == IF S = {} THEN 0 ELSE CHOOSE m \in S : \A k \in S : k <= m

\* a generateUniqueBaseName that numbers every later run of the day (1)
generateUniqueBaseNameFirstOnly(names) ==
    IF {f \in names : startsWith(f, BasePattern)} = {} THEN BasePattern
    ELSE BasePattern \o <<"(", "1", ")">>

\* generateUniqueBaseName('profile') over the names of the responses directory
generateUniqueBaseName(names) ==
    LET existingFiles ==
            {f \in names : startsWith(f, BasePattern) /\ endsWith(f, <<".", "json">>)}
        Next1(maxExecNumber) ==
            BasePattern \o <<"(">> \o NatToString(maxExecNumber + 1) \o <<")">>
    IN  IF existingFiles = {} THEN BasePattern
        ELSE Next1(Max({ExecNumber(f).number :
                           f \in {g \in existingFiles : ExecNumber(g).matched}}))

\* the index at which the digits that end at index j of name begin
RECURSIVE DigitsStart(_, _)
DigitsStart(name, j) ==
    IF j >= 1 /\ IsDigit(name[j]) THEN DigitsStart(name, j - 1) ELSE j + 1

\* a.match(/_(\d+)\.json$/): [matched, number], number being parseInt of
\* the group
PageNumber(name) ==
    LET Group(first, last) ==
            IF /\ endsWith(name, <<".", "json">>)
               /\ first <= last
               /\ first >= 2
               /\ name[first - 1] = "_"
            THEN [matched |-> TRUE, number |-> IntVal(name, first, last + 1)]
            ELSE [matched |-> FALSE, number |-> 0]
    IN  Group(DigitsStart(name, Len(name) - 2), Len(name) - 2)

\* the place of a character in the order of the character codes
CharRank(c) ==
    CHOOSE i \in 1..14 :
        <<"(", ")", ".", "0", "1", "2", "3", "4", "5", "6", "7", "8", "9",
          "_">>[i] = c

\* a < b as strings that follow the same first piece
RECURSIVE NameLess(_, _, _)
NameLess(a, b, i) ==
    IF i > Len(a) THEN i <= Len(b)
    ELSE IF i > Len(b) THEN FALSE
    ELSE IF a[i] = b[i] THEN NameLess(a, b, i + 1)
    ELSE CharRank(a[i]) < CharRank(b[i])

\* the files in the order of their names, as a directory listing gives them
RECURSIVE SortedByName(_)
SortedByName(files) ==
    IF files = {} THEN <<>>
    ELSE LET Then(first) == <<first>> \o SortedByName(files \ {first})
         IN  Then(CHOOSE f \in files :
                     \A g \in files \ {f} : NameLess(f, g, 2))

\* sort((a, b) => aNum - bNum): the files by ascending page number
RECURSIVE SortedByPageNumber(_)
SortedByPageNumber(files) ==
    IF files = {} THEN <<>>
    ELSE LET Then(first) == <<first>> \o SortedByPageNumber(files \ {first})
         IN  Then(CHOOSE f \in files :
                     \A g \in files : PageNumber(f).number <= PageNumber(g).number)

\* readdirSync(responsesDir).filter(startsWith(baseName) && endsWith('.json'))
executionFiles(names, base) ==
    {f \in names : startsWith(f, base) /\ endsWith(f, <<".", "json">>)}

\* the mutant: only the first file is read
AllItemsOfFirstFile(dir, files) ==
    IF Len(files) = 0 THEN <<>> ELSE dir[Head(files)]

\* allItems.push(...data.items) over the files in order
RECURSIVE AllItems(_, _)
AllItems(dir, files) ==
    IF Len(files) = 0 THEN <<>>
    ELSE dir[Head(files)] \o AllItems(dir, Tail(files))

\* a file of the result directory: `${base}_consolidated`, counter, extension
Consolidated(base, file) == [base |-> base, n |-> file.n, ext |-> file.ext]

\* the files of the result directory that carry a base name
FilesOfBase(dir, base) ==
    {File(k.n, k.ext) : k \in {c \in DOMAIN dir : c.base = base}}

\* the directory with one file written (created or overwritten)
WriteFile(dir, name, content) ==
    [f \in DOMAIN dir \cup {name} |-> IF f = name THEN content ELSE dir[f]]

\* the directory with files removed
Unlink(dir, names) == [f \in DOMAIN dir \ names |-> dir[f]]

\* the request at which the server of a long run delivers its last page
LongRun == 11

\* the items of one response: the profiles of page number page of run run
PageItems(run, page, count) ==
    [k \in 1..count |-> [run |-> run, page |-> page, k |-> k]]

\* data.total of a run's first response
Totals == {0, 3, 100}

\* data.items.length of a response: an empty, a short and a full page
PageCounts == {0, 1, PageLimit}

\* the most records a faithful upstream holds
MaxTotal == 5

\* the items a faithful upstream of t records serves at an offset
Served(o, t) ==
    IF t <= o THEN 0 ELSE IF t - o < PageLimit THEN t - o ELSE PageLimit

\* the mutant: the loop ends on a short page only
SearchEndsOnShortPage(fetched, total, count) == count < PageLimit

\* fetchedProfiles >= totalProfiles || data.items.length < profilesPerRequest
SearchEnds(fetched, total, count) == fetched >= total \/ count < PageLimit

\* page files an earlier day's work has left: a run that was not consolidated
\* and a second run that failed after its first page
LeftoverPages ==
    [f \in {PageName(BasePattern, 1), PageName(BasePattern, 2),
            PageName(BasePattern \o <<"(", "1", ")">>, 1)}
       |-> <<[run |-> 0, page |-> 0, k |-> 1]>>]

LeftoverOutputs ==
    [f \in {Consolidated(BasePattern, File(0, "json")),
            Consolidated(BasePattern, File(0, "csv"))}
       |-> <<[run |-> 0, page |-> 0, k |-> 1]>>]

InitSearch ==
    /\ searchPc = "start"
    /\ runNo = 0
    /\ \/ /\ runsAllowed = MaxRuns
          /\ pageCap = 2
          /\ upstreamTotal = AnyUpstream
          /\ responsesDir = EmptyDir
          /\ outputsDir = EmptyDir
       \/ /\ runsAllowed = 1
          /\ pageCap = LongRun
          /\ upstreamTotal = AnyUpstream
          /\ responsesDir \in {EmptyDir, LeftoverPages}
          /\ outputsDir \in {EmptyDir, LeftoverOutputs}
       \/ /\ runsAllowed = 1
          /\ pageCap = LongRun
          /\ upstreamTotal \in 0..MaxTotal
          /\ responsesDir = EmptyDir
          /\ outputsDir = EmptyDir
    /\ baseName = <<>>
    /\ consolidate = FALSE
    /\ requestCount = 0
    /\ totalProfiles = 0
    /\ fetchedProfiles = 0
    /\ searchOffset = 0
    /\ searchRequests = <<>>
    /\ searchOutcome = "none"
    /\ MiningIdle
    /\ CsvIdle
    /\ BulkIdle
    /\ ListIdle
    /\ TokenIdle
    /\ NamesIdle

\* searchProfiles up to its loop: the counters and the run's base name
StartSearch ==
    /\ searchPc \in {"start", "done"}
    /\ runNo < runsAllowed
    /\ runNo' = runNo + 1
    /\ consolidate' \in BOOLEAN
    /\ baseName' = generateUniqueBaseName(DOMAIN responsesDir)
    /\ requestCount' = 0
    /\ totalProfiles' = 0
    /\ fetchedProfiles' = 0
    /\ searchOffset' = 0
    /\ searchRequests' = <<>>
    /\ searchOutcome' = "running"
    /\ searchPc' = "request"
    /\ UNCHANGED <<responsesDir, outputsDir, runsAllowed, pageCap,
                   upstreamTotal>>

\* one turn of the loop that throws, in ensureValidToken before the request
\* is counted and sent, or in the request: the run fails
RequestFails ==
    /\ searchPc = "request"
    /\ searchPc' = "done"
    /\ searchOutcome' = "failed"
    /\ \E sent \in BOOLEAN :
          IF sent
          THEN /\ requestCount' = requestCount + 1
               /\ searchRequests' = Append(searchRequests, searchOffset)
          ELSE UNCHANGED <<requestCount, searchRequests>>
    /\ UNCHANGED <<responsesDir, outputsDir, runNo, runsAllowed, pageCap,
                   baseName, consolidate, totalProfiles, fetchedProfiles,
                   searchOffset, upstreamTotal>>

\* one turn of the loop: the response is saved as a page file; the loop ends
\* when the total is reached or the page is short
Request ==
    /\ searchPc = "request"
    /\ \E total \in (IF requestCount > 0 THEN {totalProfiles}
                     ELSE IF upstreamTotal = AnyUpstream THEN Totals
                     ELSE {upstreamTotal}),
          count \in (IF upstreamTotal = AnyUpstream THEN PageCounts
                     ELSE {Served(searchOffset, upstreamTotal)}) :
          /\ requestCount + 1 >= pageCap => count < PageLimit
          /\ requestCount' = requestCount + 1
          /\ searchRequests' = Append(searchRequests, searchOffset)
          /\ totalProfiles' = total
          /\ fetchedProfiles' = fetchedProfiles + count
          /\ responsesDir' =
                 WriteFile(responsesDir, PageName(baseName, requestCount + 1),
                           PageItems(runNo, requestCount + 1, count))
          /\ IF SearchEnds(fetchedProfiles + count, total, count)
             THEN /\ searchOffset' = searchOffset
                  /\ IF consolidate
                     THEN searchPc' = "consolidate"
                          /\ searchOutcome' = searchOutcome
                     ELSE searchPc' = "done" /\ searchOutcome' = "completed"
             ELSE /\ searchOffset' = searchOffset + PageLimit
                  /\ searchPc' = "request"
                  /\ searchOutcome' = searchOutcome
    /\ UNCHANGED <<outputsDir, runNo, runsAllowed, pageCap, baseName,
                   consolidate, upstreamTotal>>

\* consolidateResults(baseName, totalProfiles, true, false): the run's page
\* files are merged into one file of the result directory and removed, and
\* the CSV is generated beside it
ConsolidateResults ==
    /\ searchPc = "consolidate"
    /\ LET Merge(files, outputFile) ==
               /\ outputsDir' =
                      WriteFile(WriteFile(outputsDir, outputFile,
                                          AllItems(responsesDir, files)),
                                Consolidated(baseName, CsvName(outputFile)),
                                AllItems(responsesDir, files))
               /\ responsesDir' =
                      Unlink(responsesDir, {files[i] : i \in 1..Len(files)})
               /\ searchOutcome' = "consolidated"
       IN  IF executionFiles(DOMAIN responsesDir, baseName) = {}
           THEN /\ searchOutcome' = "noFiles"
                /\ UNCHANGED <<responsesDir, outputsDir>>
           ELSE Merge(SortedByPageNumber(executionFiles(DOMAIN responsesDir, baseName)),
                      Consolidated(baseName,
                          generateUniqueFilename(FilesOfBase(outputsDir, baseName),
                                                 "json")))
    /\ searchPc' = "done"
    /\ UNCHANGED <<runNo, runsAllowed, pageCap, baseName, consolidate,
                   requestCount, totalProfiles, fetchedProfiles, searchOffset,
                   searchRequests, upstreamTotal>>

\* consolidateResults throws: on reading or parsing a page, on writing the
\* consolidated file (which may leave it cut short), on unlinking a page
\* after some were unlinked, or in generateCSV
ConsolidateFails ==
    /\ searchPc = "consolidate"
    /\ executionFiles(DOMAIN responsesDir, baseName) # {}
    /\ LET Thrown(files, outputFile) ==
              \E step \in {"read", "write", "unlink", "csv"},
                 k \in 0..(Len(files) - 1) :
                 CASE step = "read" ->
                         UNCHANGED <<responsesDir, outputsDir>>
                   [] step = "write" ->
                         /\ outputsDir' \in
                               {outputsDir,
                                WriteFile(outputsDir, outputFile, <<>>)}
                         /\ responsesDir' = responsesDir
                   [] step = "unlink" ->
                         /\ outputsDir' =
                               WriteFile(outputsDir, outputFile,
                                         AllItems(responsesDir, files))
                         /\ responsesDir' =
                               Unlink(responsesDir, {files[i] : i \in 1..k})
                   [] step = "csv" ->
                         /\ outputsDir' =
                               WriteFile(outputsDir, outputFile,
                                         AllItems(responsesDir, files))
                         /\ responsesDir' =
                               Unlink(responsesDir,
                                      {files[i] : i \in 1..Len(files)})
       IN  Thrown(SortedByPageNumber(executionFiles(DOMAIN responsesDir, baseName)),
                  Consolidated(baseName,
                    generateUniqueFilename(FilesOfBase(outputsDir, baseName),
                                           "json")))
    /\ searchPc' = "done"
    /\ searchOutcome' = "consolidateFailed"
    /\ UNCHANGED <<runNo, runsAllowed, pageCap, baseName, consolidate,
                   requestCount, totalProfiles, fetchedProfiles, searchOffset,
                   searchRequests, upstreamTotal>>

NextSearch ==
    \/ StartSearch
          /\ UNCHANGED <<miningVars, csvVars, bulkVars, listVars,
                       tokenVars, nameVars>>
    \/ RequestFails
          /\ UNCHANGED <<miningVars, csvVars, bulkVars, listVars,
                       tokenVars, nameVars>>
    \/ Request
          /\ UNCHANGED <<miningVars, csvVars, bulkVars, listVars,
                       tokenVars, nameVars>>
    \/ ConsolidateResults
          /\ UNCHANGED <<miningVars, csvVars, bulkVars, listVars,
                       tokenVars, nameVars>>
    \/ ConsolidateFails
          /\ UNCHANGED <<miningVars, csvVars, bulkVars, listVars,
                       tokenVars, nameVars>>

SpecSearch == InitSearch /\ [][NextSearch]_vars

\* the page files the current run has written
OwnPages == {PageName(baseName, i) : i \in 1..requestCount}

\* the items of the run's pages 1..n, page after page
RECURSIVE PagesUpTo(_)
PagesUpTo(n) ==
    IF n = 0 THEN <<>>
    ELSE PagesUpTo(n - 1) \o responsesDir[PageName(baseName, n)]

\* the sum of the item counts of the run's pages 1..n
RECURSIVE CountUpTo(_)
CountUpTo(n) ==
    IF n = 0 THEN 0
    ELSE CountUpTo(n - 1) + Len(responsesDir[PageName(baseName, n)])

\* C15: consolidating a run that wrote k page files produces one record set
\* whose items are the pages' items, concatenated in ascending page number,
\* c1+...+ck of them, and removes exactly those k page files, leaving every
\* other file as it was; it does so whatever total the first response
\* reported.
C15_ConsolidationMergesPagesInOrder ==
    [][(searchPc = "consolidate" /\ searchOutcome' # "consolidateFailed") =>
          /\ searchOutcome' = "consolidated"
          /\ OwnPages \subseteq DOMAIN responsesDir
          /\ DOMAIN responsesDir' = DOMAIN responsesDir \ OwnPages
          /\ Cardinality(DOMAIN responsesDir \ DOMAIN responsesDir') = requestCount
          /\ \A f \in DOMAIN responsesDir' : responsesDir'[f] = responsesDir[f]
          /\ \E out \in DOMAIN outputsDir' \ DOMAIN outputsDir :
                /\ out.ext = "json"
                /\ out.base = baseName
                /\ outputsDir'[out] = PagesUpTo(requestCount)
                /\ Len(outputsDir'[out]) = CountUpTo(requestCount)]_vars

\* C15 witness: a run of LongRun pages, beside page files of other runs, has
\* been consolidated into a set whose size differs from the reported total
C15_Witness ==
    /\ searchOutcome = "consolidated"
    /\ requestCount = LongRun
    /\ fetchedProfiles > PageLimit * (LongRun - 1)
    /\ totalProfiles # fetchedProfiles
    /\ PageName(BasePattern, 1) \in DOMAIN responsesDir

\* C20: in any sequence of search runs made one after another on one date, a
\* run gets a base name under which no page file exists; no step overwrites
\* a page file or a file of the result directory; a consolidating run
\* removes only page files it wrote itself and merges only their items.
C20_RunsKeepToTheirOwnFiles ==
    [][/\ searchPc' = "request" /\ searchPc # "request"
          => \A f \in DOMAIN responsesDir : ~startsWith(f, baseName' \o <<"_">>)
       /\ \A f \in DOMAIN responsesDir \cap DOMAIN responsesDir' :
             responsesDir'[f] = responsesDir[f]
       /\ \A f \in DOMAIN responsesDir' \ DOMAIN responsesDir :
             \A i \in 1..Len(responsesDir'[f]) : responsesDir'[f][i].run = runNo
       /\ \A k \in DOMAIN outputsDir :
             k \in DOMAIN outputsDir' /\ outputsDir'[k] = outputsDir[k]
       /\ \A f \in DOMAIN responsesDir \ DOMAIN responsesDir' :
             /\ f \in OwnPages
             /\ \A i \in 1..Len(responsesDir[f]) : responsesDir[f][i].run = runNo
       /\ \A k \in DOMAIN outputsDir' \ DOMAIN outputsDir :
             \A i \in 1..Len(outputsDir'[k]) : outputsDir'[k][i].run = runNo]_vars

\* C20 witness: the third run of the day, numbered (2), has been consolidated
\* while page files of the two runs before it remain
C20_Witness ==
    /\ runNo = 3
    /\ searchOutcome = "consolidated"
    /\ baseName = BasePattern \o <<"(", "2", ")">>
    /\ PageName(BasePattern, 1) \in DOMAIN responsesDir
    /\ PageName(BasePattern \o <<"(", "1", ")">>, 1) \in DOMAIN responsesDir

\* the loop of the run has ended without an error
LoopEnded == searchPc \in {"consolidate", "done"} /\ searchOutcome # "failed"

\* the n-th request of the run asked for offset (n-1)*pageSize
OffsetsStepByPageSize ==
    \A n \in 1..Len(searchRequests) : searchRequests[n] = (n - 1) * PageLimit

\* a request after the first is made only when the page before it was full
\* and left the cumulative count below the total
RequestsOnlyWhileMoreIsDue ==
    (Len(searchRequests') > Len(searchRequests) /\ requestCount >= 1) =>
        /\ CountUpTo(requestCount) < totalProfiles
        /\ Len(responsesDir[PageName(baseName, requestCount)]) = PageLimit

\* against the faithful upstream the loop ends after max(1, ceil(T/pageSize))
\* requests with T items
FaithfulUpstreamIsRead ==
    (LoopEnded /\ upstreamTotal # AnyUpstream) =>
        /\ Len(searchRequests) =
              Max({1, (upstreamTotal + PageLimit - 1) \div PageLimit})
        /\ fetchedProfiles = upstreamTotal

\* C22: in a paginated search the n-th request uses offset (n-1)*pageSize,
\* and no request follows the first page at which the cumulative item count
\* reaches the total of the first response or the page is short; against an
\* upstream that reports total T and serves min(pageSize, T - offset) items
\* per page the loop ends after max(1, ceil(T/pageSize)) requests with
\* exactly T items fetched.
C22_OffsetPaginationReadsTheUpstream ==
    /\ []OffsetsStepByPageSize
    /\ [][RequestsOnlyWhileMoreIsDue]_vars
    /\ []FaithfulUpstreamIsRead

\* C22 witness: a faithful upstream of two full pages and one record more has
\* been read with three requests
C22_Witness ==
    /\ LoopEnded
    /\ upstreamTotal = 2 * PageLimit + 1
    /\ searchRequests = <<0, PageLimit, 2 * PageLimit>>
    /\ fetchedProfiles = upstreamTotal

\* C23: the response of request n is written to its own page file
\* <base>_<n>.json before request n+1 is issued; if request n fails the run
\* ends with an error, the page files 1..n-1 stay on disk unchanged, and
\* nothing is consolidated or deleted.
C23_PagesAreSavedBeforeTheNextRequest ==
    [][/\ Len(searchRequests') > Len(searchRequests) =>
             \A k \in 1..Len(searchRequests) :
                PageName(baseName, k) \in DOMAIN responsesDir
       /\ (requestCount' = requestCount + 1 /\ searchOutcome' # "failed") =>
             /\ PageName(baseName, requestCount') \notin DOMAIN responsesDir
             /\ PageName(baseName, requestCount') \in DOMAIN responsesDir'
             /\ Len(responsesDir'[PageName(baseName, requestCount')]) =
                   fetchedProfiles' - fetchedProfiles
       /\ (searchPc = "request" /\ searchOutcome' = "failed") =>
             /\ searchPc' = "done"
             /\ responsesDir' = responsesDir
             /\ outputsDir' = outputsDir
             /\ \A k \in 1..Len(searchRequests) :
                   PageName(baseName, k) \in DOMAIN responsesDir'
       /\ searchOutcome = "failed" =>
             responsesDir' = responsesDir /\ outputsDir' = outputsDir]_vars

\* C23 witness: the third request of a consolidating run has failed and the
\* files of pages 1 and 2 are on disk
C23_Witness ==
    /\ searchOutcome = "failed"
    /\ consolidate
    /\ Len(searchRequests) = 3
    /\ requestCount = 3
    /\ PageName(baseName, 1) \in DOMAIN responsesDir
    /\ PageName(baseName, 2) \in DOMAIN responsesDir
    /\ PageName(baseName, 3) \notin DOMAIN responsesDir

\* the records of a sequence
RecordsOf(content) == {content[i] : i \in 1..Len(content)}

\* the records the page files and the consolidated JSON files hold
HeldRecords ==
    UNION ({RecordsOf(responsesDir[f]) : f \in DOMAIN responsesDir} \cup
           {RecordsOf(outputsDir[k]) :
               k \in {c \in DOMAIN outputsDir : c.ext = "json"}})

\* C30: consolidation deletes page files only after every page has been read
\* and the consolidated JSON file has been written; when reading a page or
\* writing the file fails no page file has been deleted; so every record the
\* run has fetched is at every moment held by a page file or by the
\* consolidated file.
C30_PagesOutliveTheirConsolidation ==
    /\ [][/\ DOMAIN responsesDir \ DOMAIN responsesDir' # {} =>
               \E out \in DOMAIN outputsDir' \ DOMAIN outputsDir :
                  /\ out.ext = "json"
                  /\ outputsDir'[out] = PagesUpTo(requestCount)
          /\ HeldRecords \subseteq HeldRecords']_vars
    /\ [](Cardinality({r \in HeldRecords : r.run = runNo /\ r.page > 0})
             = fetchedProfiles)

\* C30 witness: a consolidation has failed after the consolidated file was
\* written and a part of the run's page files was deleted
C30_Witness ==
    /\ searchOutcome = "consolidateFailed"
    /\ requestCount >= 2
    /\ fetchedProfiles > PageLimit
    /\ OwnPages \cap DOMAIN responsesDir # {}
    /\ ~(OwnPages \subseteq DOMAIN responsesDir)

(***************************************************************************)
(* deleteProducts: the products of a file are deleted in batches of        *)
(* `concurrency' parallel requests.                                        *)
(***************************************************************************)
MaxIds == 3
MaxParallel == 10
NotFound == 404
\* error.response?.status of an error without a response: undefined
Undefined == 0

IdPrefix == <<"P", "A">>
ProductIdPool ==
    {<<"P", "A", "1">>, <<"P", "A", "2">>, <<"X", "P", "A">>}
ConcurrencyOptions == {-1, 0, 1, 2, 10, 11}

SeqsUpTo(S, n) == UNION {[1..k -> S] : k \in 0..n}
Min(a, b) == IF a < b THEN a ELSE b

\* parseInt(options.concurrency) || 1
OrOne(n) == IF n = 0 THEN 1 ELSE n

\* the mutant: the prefix may stand anywhere in the ID
ValidIdAnywhere(id) ==
    \E k \in 1..Len(id) : startsWith(SubSeq(id, k, Len(id)), IdPrefix)

\* productId.startsWith('PA')
ValidId(id) == startsWith(id, IdPrefix)

\* the errors axios rejects with: a response with a status and perhaps a
\* message in its body, or no response at all
Failures ==
    {[hasResponse |-> TRUE, status |-> NotFound,
      dataMessage |-> "Product not found",
      message |-> "Request failed with status code 404"],
     [hasResponse |-> TRUE, status |-> 500,
      dataMessage |-> "",
      message |-> "Request failed with status code 500"],
     [hasResponse |-> FALSE, status |-> Undefined,
      dataMessage |-> "",
      message |-> "socket hang up"]}
Succeeds == [hasResponse |-> TRUE, status |-> 200, dataMessage |-> "",
             message |-> ""]

\* error.response?.data?.message || error.message
ErrorMsg(err) ==
    IF err.hasResponse /\ err.dataMessage # "" THEN err.dataMessage
    ELSE err.message

\* the mutant: the status of the response is left out
StatusCodeDropped(err) == Undefined

\* error.response?.status
StatusCode(err) == IF err.hasResponse THEN err.status ELSE Undefined

\* the mutant: the slice takes one position more
BatchOverlapping(i, c, ids) == i..Min(i + c, Len(ids))

\* the positions of productIds.slice(i, i + concurrency)
Batch(i, c, ids) == i .. Min(i + c - 1, Len(ids))

Settled == {"skipped", "deleted", "failed"}

\* the mutant: Promise.race, the batch ends with its first call
BatchSettledByAny(st, batch) == \E j \in batch : st[j] \in Settled

\* Promise.all(batchPromises) resolves
BatchSettled(st, batch) == \A j \in batch : st[j] \in Settled

InitDelete ==
    /\ delPc = "start"
    /\ productIds \in SeqsUpTo(ProductIdPool, MaxIds)
    /\ concurrency \in ConcurrencyOptions
    /\ tokenValid \in BOOLEAN
    /\ csvFound \in BOOLEAN
    /\ batchStart = 0
    /\ stage = <<>>
    /\ report = NoDeleteReport
    /\ requests = <<>>
    /\ refreshes = {}
    /\ reportFile = <<>>
    /\ csvMoved = FALSE
    /\ delOutcome = "none"
    /\ OrdersIdle
    /\ MiningIdle
    /\ CsvIdle
    /\ SearchIdle
    /\ ListIdle
    /\ TokenIdle
    /\ NamesIdle

\* the token has run out when the next batch, or the next fetch, starts:
\* the only places of the loops that read it
TokenExpires ==
    /\ delPc = "batch" \/ ordPc = "loop"
    /\ tokenValid
    /\ tokenValid' = FALSE
    /\ UNCHANGED <<csvFound, reportFile, deleteVars, ordersVars>>

\* the command's action and deleteProducts up to the batch loop
DeleteStart ==
    /\ delPc = "start"
    /\ \E ok \in BOOLEAN :
          LET n == OrOne(concurrency)
              refused == n < 1 \/ n > MaxParallel
              authFailed == ~tokenValid /\ ~ok
          IN  IF refused
              THEN /\ delPc' = "aborted"
                   /\ delOutcome' = "badConcurrency"
                   /\ UNCHANGED <<tokenValid, concurrency, batchStart, stage,
                                  report>>
              ELSE IF authFailed
              THEN /\ delPc' = "aborted"
                   /\ delOutcome' = "authFailed"
                   /\ UNCHANGED <<tokenValid, concurrency, batchStart, stage,
                                  report>>
              ELSE IF ~csvFound
              THEN /\ delPc' = "aborted"
                   /\ delOutcome' = "noFile"
                   /\ tokenValid' = TRUE
                   /\ UNCHANGED <<concurrency, batchStart, stage, report>>
              ELSE /\ delPc' = "batch"
                   /\ delOutcome' = delOutcome
                   /\ tokenValid' = TRUE
                   /\ concurrency' = n
                   /\ batchStart' = 1
                   /\ stage' = [j \in 1..Len(productIds) |-> "pending"]
                   /\ report' = [NoDeleteReport
                                   EXCEPT !.total = Len(productIds)]
    /\ UNCHANGED <<productIds, csvFound, requests, refreshes, reportFile,
                   csvMoved, ordersVars>>

\* one turn of the batch loop up to its await: deleteProduct is called for
\* each ID of the batch, and runs up to its first wait
StartBatch ==
    /\ delPc = "batch"
    /\ batchStart <= Len(productIds)
    /\ LET batch == Batch(batchStart, concurrency, productIds)
           hi == Min(batchStart + concurrency - 1, Len(productIds))
           Valid(j) == ValidId(productIds[j])
           Invalid(id) == ~ValidId(id)
           invalid == SelectSeq(SubSeq(productIds, batchStart, hi), Invalid)
       IN  /\ stage' = [j \in DOMAIN stage |->
                          IF j \notin batch THEN stage[j]
                          ELSE IF ~Valid(j) THEN "skipped"
                          ELSE IF tokenValid THEN "inflight"
                          ELSE "auth"]
           /\ report' = [report EXCEPT !.skipped = @ + Len(invalid),
                                       !.invalidIds = @ \o invalid]
           /\ requests' = IF tokenValid
                          THEN requests \o
                               SelectSeq([k \in 1..(hi - batchStart + 1)
                                            |-> batchStart + k - 1], Valid)
                          ELSE requests
           /\ refreshes' = IF tokenValid THEN refreshes
                           ELSE refreshes \cup {j \in batch : Valid(j)}
    /\ delPc' = "await"
    /\ UNCHANGED <<tokenValid, csvFound, productIds, concurrency, batchStart,
                   reportFile, csvMoved, delOutcome, ordersVars>>

\* the authentication a call of deleteProduct waits for ends: the call sends
\* its request, or rejects and the run ends with it
AuthDone ==
    /\ delPc = "await"
    /\ \E j \in DOMAIN stage, ok \in BOOLEAN :
          /\ stage[j] = "auth"
          /\ IF ok
             THEN /\ tokenValid' = TRUE
                  /\ stage' = [stage EXCEPT ![j] = "inflight"]
                  /\ requests' = Append(requests, j)
                  /\ UNCHANGED <<delPc, delOutcome>>
             ELSE /\ stage' = [stage EXCEPT ![j] = "rejected"]
                  /\ delPc' = "aborted"
                  /\ delOutcome' = "authFailed"
                  /\ UNCHANGED <<tokenValid, requests>>
    /\ UNCHANGED <<csvFound, productIds, concurrency, batchStart, report,
                   refreshes, reportFile, csvMoved, ordersVars>>

\* a delete request ends
DeleteDone ==
    /\ delPc = "await"
    /\ \E j \in DOMAIN stage, res \in Failures \cup {Succeeds} :
          /\ stage[j] = "inflight"
          /\ IF res = Succeeds
             THEN /\ stage' = [stage EXCEPT ![j] = "deleted"]
                  /\ report' = [report EXCEPT !.deleted = @ + 1]
             ELSE /\ stage' = [stage EXCEPT ![j] = "failed"]
                  /\ report' =
                       [report EXCEPT
                          !.failed = @ + 1,
                          !.errors = Append(@, [productId |-> productIds[j],
                                                error |-> ErrorMsg(res),
                                                statusCode |-> StatusCode(res)])]
    /\ UNCHANGED <<tokenValid, csvFound, productIds, concurrency, delPc,
                   batchStart, requests, refreshes, reportFile, csvMoved,
                   delOutcome, ordersVars>>

\* the await of the batch ends
BatchDone ==
    /\ delPc = "await"
    /\ BatchSettled(stage, Batch(batchStart, concurrency, productIds))
    /\ delPc' = "batch"
    /\ batchStart' = batchStart + concurrency
    /\ UNCHANGED <<tokenValid, csvFound, productIds, concurrency, stage,
                   report, requests, refreshes, reportFile, csvMoved,
                   delOutcome, ordersVars>>

\* after the loop: the report is written and the input file moved away
WriteReport ==
    /\ delPc = "batch"
    /\ batchStart > Len(productIds)
    /\ reportFile' = Append(reportFile, report)
    /\ csvMoved' \in BOOLEAN
    /\ delPc' = "done"
    /\ delOutcome' = "reported"
    /\ UNCHANGED <<tokenValid, csvFound, productIds, concurrency, batchStart,
                   stage, report, requests, refreshes, ordersVars>>

(***************************************************************************)
(* searchOrders: the orders of a file are fetched one after the other.     *)
(***************************************************************************)
SHeader == <<"o", "r", "d", "e", "r", "i", "d">>
OrderLinePool ==
    {<<"o", "r", "d", "e", "r", "I", "d">>, <<"o", "1">>, <<"o", "2">>}

\* lines[0].toLowerCase() === 'orderid' ? lines.slice(1) : lines
WithoutHeader(lines) ==
    IF toLowerCase(lines[1]) = SHeader THEN Tail(lines) ELSE lines

InitOrders ==
    /\ ordPc = "start"
    /\ orderLines \in SeqsUpTo(OrderLinePool, MaxIds)
    /\ tokenValid \in BOOLEAN
    /\ csvFound \in BOOLEAN
    /\ orderIds = <<>>
    /\ ordIndex = 0
    /\ orders = <<>>
    /\ ordersReport = NoOrdersReport
    /\ ordersSent = <<>>
    /\ ordersFile = <<>>
    /\ reportFile = <<>>
    /\ ordOutcome = "none"
    /\ DeleteIdle
    /\ MiningIdle
    /\ CsvIdle
    /\ SearchIdle
    /\ ListIdle
    /\ TokenIdle
    /\ NamesIdle

\* searchOrders up to its loop
OrdersStart ==
    /\ ordPc = "start"
    /\ \E ok \in BOOLEAN :
          IF ~tokenValid /\ ~ok
          THEN /\ ordPc' = "aborted"
               /\ ordOutcome' = "authFailed"
               /\ UNCHANGED <<tokenValid, orderIds, ordIndex, ordersReport>>
          ELSE IF ~csvFound
          THEN /\ ordPc' = "aborted"
               /\ ordOutcome' = "noFile"
               /\ tokenValid' = TRUE
               /\ UNCHANGED <<orderIds, ordIndex, ordersReport>>
          ELSE IF Len(orderLines) = 0
          THEN /\ ordPc' = "aborted"
               /\ ordOutcome' = "typeError"
               /\ tokenValid' = TRUE
               /\ UNCHANGED <<orderIds, ordIndex, ordersReport>>
          ELSE /\ ordPc' = "loop"
               /\ ordOutcome' = ordOutcome
               /\ tokenValid' = TRUE
               /\ orderIds' = WithoutHeader(orderLines)
               /\ ordIndex' = 1
               /\ ordersReport' =
                    [NoOrdersReport
                       EXCEPT !.total = Len(WithoutHeader(orderLines))]
    /\ UNCHANGED <<csvFound, orderLines, orders, ordersSent, ordersFile,
                   reportFile, deleteVars>>

\* one turn of the fetch loop
FetchOrder ==
    /\ ordPc = "loop"
    /\ ordIndex <= Len(orderIds)
    /\ \E ok \in BOOLEAN, res \in Failures \cup {Succeeds} :
          IF ~tokenValid /\ ~ok
          THEN /\ ordPc' = "aborted"
               /\ ordOutcome' = "authFailed"
               /\ UNCHANGED <<tokenValid, ordIndex, orders, ordersReport,
                              ordersSent>>
          ELSE /\ tokenValid' = TRUE
               /\ ordersSent' = Append(ordersSent, ordIndex)
               /\ ordIndex' = ordIndex + 1
               /\ UNCHANGED <<ordPc, ordOutcome>>
               /\ IF res = Succeeds
                  THEN /\ orders' = Append(orders, [id |-> orderIds[ordIndex]])
                       /\ ordersReport' =
                            [ordersReport EXCEPT !.fetched = @ + 1]
                  ELSE /\ orders' = orders
                       /\ ordersReport' =
                            [ordersReport EXCEPT
                               !.failed = @ + 1,
                               !.errors =
                                  Append(@, [orderId |-> orderIds[ordIndex],
                                             error |-> ErrorMsg(res),
                                             statusCode |-> StatusCode(res)])]
    /\ UNCHANGED <<csvFound, orderLines, orderIds, ordersFile, reportFile,
                   deleteVars>>

\* after the loop: the orders, their CSV export and the report are written
OrdersFinish ==
    /\ ordPc = "loop"
    /\ ordIndex > Len(orderIds)
    /\ ordersFile' = Append(ordersFile, [total |-> Len(orders),
                                         items |-> orders,
                                         csv |-> Len(orders) > 0])
    /\ reportFile' = Append(reportFile, ordersReport)
    /\ ordPc' = "done"
    /\ ordOutcome' = "reported"
    /\ UNCHANGED <<tokenValid, csvFound, orderLines, orderIds, ordIndex,
                   orders, ordersReport, ordersSent, deleteVars>>

InitBulk == InitDelete \/ InitOrders

NextBulk ==
    \/ TokenExpires
          /\ UNCHANGED <<miningVars, csvVars, searchVars, listVars,
                       tokenVars, nameVars>>
    \/ DeleteStart
          /\ UNCHANGED <<miningVars, csvVars, searchVars, listVars,
                       tokenVars, nameVars>>
    \/ StartBatch
          /\ UNCHANGED <<miningVars, csvVars, searchVars, listVars,
                       tokenVars, nameVars>>
    \/ AuthDone
          /\ UNCHANGED <<miningVars, csvVars, searchVars, listVars,
                       tokenVars, nameVars>>
    \/ DeleteDone
          /\ UNCHANGED <<miningVars, csvVars, searchVars, listVars,
                       tokenVars, nameVars>>
    \/ BatchDone
          /\ UNCHANGED <<miningVars, csvVars, searchVars, listVars,
                       tokenVars, nameVars>>
    \/ WriteReport
          /\ UNCHANGED <<miningVars, csvVars, searchVars, listVars,
                       tokenVars, nameVars>>
    \/ OrdersStart
          /\ UNCHANGED <<miningVars, csvVars, searchVars, listVars,
                       tokenVars, nameVars>>
    \/ FetchOrder
          /\ UNCHANGED <<miningVars, csvVars, searchVars, listVars,
                       tokenVars, nameVars>>
    \/ OrdersFinish
          /\ UNCHANGED <<miningVars, csvVars, searchVars, listVars,
                       tokenVars, nameVars>>

SpecBulk == InitBulk /\ [][NextBulk]_vars

(***************************************************************************)
(* Properties of the bulk operations.                                      *)
(***************************************************************************)
\* the ID begins with the letters P, A
BeginsWithPA(id) == Len(id) >= 2 /\ id[1] = "P" /\ id[2] = "A"

\* the positions deleteProduct was called for
Called == {j \in DOMAIN stage : stage[j] # "pending"}

BadId(id) == ~BeginsWithPA(id)
BadCalled(j) == BadId(productIds[j])

\* C16: in a bulk delete, an ID that does not start with "PA" never causes
\* a delete request nor a token refresh, and is counted exactly once under
\* skipped (and listed once among the invalid IDs), never under deleted or
\* failed: the two count only requests that were sent and have ended.
C16_InvalidIdsAreOnlySkipped ==
    /\ \A j \in DOMAIN stage :
          BadCalled(j) =>
             /\ stage[j] \in {"pending", "skipped"}
             /\ j \notin refreshes
             /\ \A k \in 1..Len(requests) : requests[k] # j
    /\ report.skipped = Cardinality({j \in Called : BadCalled(j)})
    /\ report.invalidIds =
          SelectSeq(SubSeq(productIds, 1, Cardinality(Called)), BadId)
    /\ report.deleted + report.failed =
          Len(requests) - Cardinality({j \in DOMAIN stage : stage[j] = "inflight"})
    /\ \A k \in 1..Len(report.errors) :
          BeginsWithPA(report.errors[k].productId)

C16_Witness ==
    /\ delPc = "done"
    /\ productIds = <<<<"P", "A", "1">>, <<"X", "P", "A">>, <<"X", "P", "A">>>>
    /\ concurrency = 2
    /\ report.skipped = 2
    /\ report.deleted = 1
    /\ requests = <<1>>
    /\ refreshes = {}

\* the batch a position belongs to, counted from 0
BatchOf(j) == (j - 1) \div concurrency

\* C17: in a bulk delete with concurrency c in 1..10, the IDs are taken in
\* input order in consecutive batches of c; at most c delete requests are
\* in flight at any time, and no call for an ID of a later batch starts
\* before every call of the batches before it has ended, whatever the order
\* in which the calls of a batch end.
C17_BatchesOfAtMostC ==
    stage # <<>> =>
       /\ concurrency \in 1..MaxParallel
       /\ Cardinality({j \in DOMAIN stage : stage[j] = "inflight"})
             <= concurrency
       /\ \E m \in 0..Len(productIds) :
             /\ Called = 1..m
             /\ m = Len(productIds) \/ m % concurrency = 0
       /\ \A j \in Called : \A i \in DOMAIN stage :
             BatchOf(i) < BatchOf(j) => stage[i] \in Settled
       /\ \A k, l \in 1..Len(requests) :
             k < l => BatchOf(requests[k]) <= BatchOf(requests[l])

C17_Witness ==
    /\ delPc = "await"
    /\ productIds = <<<<"P", "A", "1">>, <<"P", "A", "2">>, <<"P", "A", "1">>>>
    /\ concurrency = 2
    /\ stage = <<"inflight", "deleted", "pending">>
    /\ requests = <<1, 2>>

\* what the error list holds for a failed call: the message of the
\* response's body when it has one, else the error's own
Recorded ==
    {[error |-> "Product not found", statusCode |-> 404],
     [error |-> "Request failed with status code 500", statusCode |-> 500],
     [error |-> "socket hang up", statusCode |-> Undefined]}

DeleteFailureRecorded ==
    report'.failed # report.failed =>
       /\ report'.failed = report.failed + 1
       /\ report'.deleted = report.deleted
       /\ \E j \in DOMAIN stage, e \in Recorded :
             /\ stage[j] = "inflight"
             /\ report'.errors =
                   Append(report.errors, [productId |-> productIds[j],
                                          error |-> e.error,
                                          statusCode |-> e.statusCode])
       /\ delPc' = "await"

OrderFailureRecorded ==
    ordersReport'.failed # ordersReport.failed =>
       /\ ordersReport'.failed = ordersReport.failed + 1
       /\ ordersReport'.fetched = ordersReport.fetched
       /\ \E e \in Recorded :
             ordersReport'.errors =
                Append(ordersReport.errors, [orderId |-> orderIds[ordIndex],
                                             error |-> e.error,
                                             statusCode |-> e.statusCode])
       /\ ordPc' = "loop"
       /\ ordIndex' = ordIndex + 1

\* C18: in a bulk delete and in a bulk order fetch, a failed request for an
\* ID (with any status, 404 included, or with none) adds one to failed and
\* appends the ID, the message and the status code to the error list, and
\* the run goes on: it ends early only for a refused option, a missing or
\* empty input file or a failed authentication, and when it ends otherwise
\* every ID was processed, the list holds one entry for each failure, and
\* the report written is the one that counts them.
C18_FailedCallsAreRecordedAndTheRunGoesOn ==
    /\ [][DeleteFailureRecorded /\ OrderFailureRecorded]_vars
    /\ [](/\ delPc = "aborted" =>
                delOutcome \in {"badConcurrency", "authFailed", "noFile"}
          /\ ordPc = "aborted" =>
                ordOutcome \in {"authFailed", "noFile", "typeError"}
          /\ delPc = "done" =>
                /\ \A j \in DOMAIN stage : stage[j] \in Settled
                /\ report.deleted + report.failed + report.skipped
                      = Len(productIds)
                /\ Len(report.errors) = report.failed
                /\ reportFile = <<report>>
          /\ ordPc = "done" =>
                /\ ordersSent = [k \in 1..Len(orderIds) |-> k]
                /\ ordersReport.fetched + ordersReport.failed = Len(orderIds)
                /\ Len(ordersReport.errors) = ordersReport.failed
                /\ reportFile = <<ordersReport>>)

C18_Witness ==
    /\ delPc = "done"
    /\ productIds = <<<<"P", "A", "1">>, <<"P", "A", "2">>>>
    /\ concurrency = 1
    /\ report.errors = <<[productId |-> <<"P", "A", "1">>,
                          error |-> "Product not found",
                          statusCode |-> 404]>>
    /\ report.deleted = 1
    /\ reportFile = <<report>>

\* C29: when the deletion report is written, deleted + failed + skipped =
\* total, the number of the input's non-blank lines; the error list has
\* `failed' entries and the invalid-ID list `skipped' entries, whatever the
\* concurrency level and the order in which the requests of a batch end;
\* and each counter only ever grows during the run.
C29_ReportCountsAddUp ==
    /\ [](delOutcome = "reported" =>
          \A i \in 1..Len(reportFile) :
            /\ reportFile[i].total = Len(productIds)
            /\ reportFile[i].deleted + reportFile[i].failed
                  + reportFile[i].skipped = reportFile[i].total
            /\ Len(reportFile[i].errors) = reportFile[i].failed
            /\ Len(reportFile[i].invalidIds) = reportFile[i].skipped)
    /\ [][/\ report'.deleted >= report.deleted
          /\ report'.failed >= report.failed
          /\ report'.skipped >= report.skipped]_vars

\* C29 witness: a report of three IDs handled two at a time has been written
\* with one deleted, one failed and one skipped
C29_Witness ==
    /\ delOutcome = "reported"
    /\ Len(reportFile) = 1
    /\ concurrency = 2
    /\ reportFile[1].total = 3
    /\ reportFile[1].deleted = 1
    /\ reportFile[1].failed = 1
    /\ reportFile[1].skipped = 1

(***************************************************************************)
(* listIncompleteOrders: the INCOMPLETE orders are listed page by page     *)
(* into a CSV file, with a progress file to resume from.                   *)
(***************************************************************************)
pageSize == 250
maxRetries == 5
MaxInvocations == 3
ServerTotals == {0, 100, 250, 600, 750}
\* --env of the listOrders command
Envs == {"dev", "prod"}
\* retryDelays, in seconds
retryDelays == <<3, 6, 12, 24, 48>>

\* the mutant: every retry waits as long as the first
DelayOfFirstRetry(a) == retryDelays[1]

\* retryDelays[attempt - 1], attempt counting the failed requests
Delay(a) == retryDelays[a]

\* the mutant: every page ends the loop
LastPageAlways(f, t, count) == TRUE

\* fetched >= total || items.length < pageSize
LastPage(f, t, count) == f >= t \/ count < pageSize

\* data.items.length of the response for an offset
ItemsAt(o, n) == IF n <= o THEN 0 ELSE Min(pageSize, n - o)

HeaderLine == [header |-> TRUE, from |-> 0, n |-> 0, env |-> "none"]
\* the rows appendToCsv writes for the n items from an offset on
RowLines(o, n) == [header |-> FALSE, from |-> o, n |-> n, env |-> listEnv]

\* saveProgress()
Progress(o, t, f, p, path) ==
    [exists |-> TRUE, offset |-> o, total |-> t, fetched |-> f, page |-> p,
     csvPath |-> path]

InitList ==
    /\ listPc = "idle"
    /\ listRun = 0
    /\ serverTotal \in ServerTotals
    /\ saved = NoProgress
    /\ listOffset = 0
    /\ listTotal = NullTotal
    /\ listFetched = 0
    /\ listPage = 1
    /\ listAttempt = 0
    /\ activeCsvPath = 0
    /\ progressFile = NoProgress
    /\ listDir = EmptyDir
    /\ listRequests = {}
    /\ prevOutcome = "none"
    /\ listEnv = "none"
    /\ pageRequests = 0
    /\ listWaits = <<>>
    /\ listOutcome = "none"
    /\ MiningIdle
    /\ CsvIdle
    /\ SearchIdle
    /\ BulkIdle
    /\ TokenIdle
    /\ NamesIdle

\* an invocation of the command, up to the loop: the token, the progress
\* file, the header of a new CSV file
ListStart ==
    /\ listPc \in {"idle", "failed", "done"}
    /\ listRun < MaxInvocations
    /\ listRun' = listRun + 1
    /\ prevOutcome' = listOutcome
    /\ listAttempt' = 0
    /\ pageRequests' = 0
    /\ listWaits' = <<>>
    /\ listEnv' \in Envs
    /\ \E authOk \in BOOLEAN :
          IF ~authOk
          THEN /\ listPc' = "failed"
               /\ listOutcome' = "authFailed"
               /\ saved' = NoProgress
               /\ listOffset' = 0
               /\ listTotal' = NullTotal
               /\ listFetched' = 0
               /\ listPage' = 1
               /\ activeCsvPath' = 0
               /\ listDir' = listDir
          ELSE LET csvReady == /\ progressFile.exists
                               /\ progressFile.csvPath \in DOMAIN listDir
                   path == IF csvReady THEN progressFile.csvPath
                           ELSE listRun + 1
               IN  /\ listPc' = "page"
                   /\ listOutcome' = "running"
                   /\ saved' = progressFile
                   /\ listOffset' = progressFile.offset
                   /\ listTotal' = progressFile.total
                   /\ listFetched' = progressFile.fetched
                   /\ listPage' = progressFile.page
                   /\ activeCsvPath' = path
                   /\ listDir' = IF csvReady THEN listDir
                                 ELSE WriteFile(listDir, path, <<HeaderLine>>)
    /\ UNCHANGED <<serverTotal, progressFile, listRequests>>

\* the top of the loop: ensureValidToken
PageStart ==
    /\ listPc = "page"
    /\ \E authOk \in BOOLEAN :
          IF authOk
          THEN listPc' = "attempt" /\ listOutcome' = listOutcome
          ELSE listPc' = "failed" /\ listOutcome' = "authFailed"
    /\ listAttempt' = 0
    /\ pageRequests' = 0
    /\ listWaits' = <<>>
    /\ UNCHANGED <<listRun, serverTotal, saved, listOffset, listTotal,
                   listFetched, listPage, activeCsvPath, progressFile, listDir,
                   listRequests, prevOutcome, listEnv>>

\* a request for the page fails: another attempt follows, or the progress
\* is saved and the run ends
AttemptFails ==
    /\ listPc = "attempt"
    /\ listRequests' =
          listRequests \cup {[run |-> listRun, offset |-> listOffset]}
    /\ listAttempt' = listAttempt + 1
    /\ pageRequests' = pageRequests + 1
    /\ \E authOk \in BOOLEAN :
          IF listAttempt + 1 > maxRetries
          THEN /\ progressFile' = Progress(listOffset, listTotal, listFetched,
                                           listPage, activeCsvPath)
               /\ listPc' = "failed"
               /\ listOutcome' = "exhausted"
               /\ listWaits' = listWaits
          ELSE /\ progressFile' = progressFile
               /\ IF authOk
                  THEN /\ listPc' = listPc
                       /\ listOutcome' = listOutcome
                       /\ listWaits' = Append(listWaits, Delay(listAttempt + 1))
                  ELSE /\ listPc' = "failed"
                       /\ listOutcome' = "authFailed"
                       /\ listWaits' = listWaits
    /\ UNCHANGED <<listRun, serverTotal, saved, listOffset, listTotal,
                   listFetched, listPage, activeCsvPath, listDir, prevOutcome,
                   listEnv>>

\* a request for the page succeeds: its rows are appended, the progress is
\* saved, and the loop ends or steps to the next page
PageArrives ==
    /\ listPc = "attempt"
    /\ listRequests' =
          listRequests \cup {[run |-> listRun, offset |-> listOffset]}
    /\ LET Step(count, t, f) ==
              /\ listTotal' = t
              /\ listFetched' = f
              /\ listDir' = WriteFile(listDir, activeCsvPath,
                                      Append(listDir[activeCsvPath],
                                             RowLines(listOffset, count)))
              /\ IF LastPage(f, t, count)
                 THEN /\ progressFile' = NoProgress
                      /\ listPc' = "done"
                      /\ listOutcome' = "complete"
                      /\ UNCHANGED <<listOffset, listPage>>
                 ELSE /\ progressFile' =
                           Progress(listOffset, t, f, listPage,
                                    activeCsvPath)
                      /\ listPc' = "page"
                      /\ listOutcome' = listOutcome
                      /\ listOffset' = listOffset + pageSize
                      /\ listPage' = listPage + 1
           Arrived(count) ==
              Step(count,
                   IF listTotal = NullTotal THEN serverTotal ELSE listTotal,
                   listFetched + count)
       IN  Arrived(ItemsAt(listOffset, serverTotal))
    /\ pageRequests' = pageRequests + 1
    /\ UNCHANGED <<listRun, serverTotal, saved, listAttempt, activeCsvPath,
                   prevOutcome, listEnv, listWaits>>

NextList ==
    \/ ListStart
          /\ UNCHANGED <<miningVars, csvVars, searchVars, bulkVars,
                       tokenVars, nameVars>>
    \/ PageStart
          /\ UNCHANGED <<miningVars, csvVars, searchVars, bulkVars,
                       tokenVars, nameVars>>
    \/ AttemptFails
          /\ UNCHANGED <<miningVars, csvVars, searchVars, bulkVars,
                       tokenVars, nameVars>>
    \/ PageArrives
          /\ UNCHANGED <<miningVars, csvVars, searchVars, bulkVars,
                       tokenVars, nameVars>>

SpecList == InitList /\ [][NextList]_vars

(***************************************************************************)
(* Properties of the listing.                                              *)
(***************************************************************************)
\* the rows of the pages before page p
RowsBefore(p) == Min((p - 1) * pageSize, serverTotal)

\* the run ended because every attempt for its page failed
Exhausted == listPc = "failed" /\ listOutcome = "exhausted"

\* the invocation runs on the progress a run left when its page failed
ResumedAfterFailure ==
    /\ prevOutcome = "exhausted"
    /\ listOutcome # "authFailed" \/ listRequests # {}
    /\ listPc # "idle"

CheckpointDesignatesPage ==
    Exhausted =>
       /\ progressFile.exists
       /\ progressFile.page = listPage
       /\ progressFile.offset = (listPage - 1) * pageSize
       /\ progressFile.fetched = RowsBefore(listPage)
       /\ progressFile.csvPath = activeCsvPath
       /\ activeCsvPath \in DOMAIN listDir

ResumeStartsAtPage ==
    (Exhausted /\ listPc' = "page") =>
       /\ listOffset' = progressFile.offset
       /\ listPage' = progressFile.page
       /\ activeCsvPath' = progressFile.csvPath
       /\ listDir' = listDir
       /\ listRequests' = listRequests

ResumeOnlyGoesOn ==
    (ResumedAfterFailure /\ ResumedAfterFailure') =>
       /\ \A r \in listRequests' \ listRequests :
             r.run = listRun /\ r.offset >= saved.offset
       /\ (\E r \in listRequests' : r.run = listRun) =>
             [run |-> listRun, offset |-> saved.offset] \in listRequests'
       /\ listDir' # listDir =>
             \E o \in saved.offset..listOffset, n \in 0..pageSize :
                listDir' = WriteFile(listDir, saved.csvPath,
                                     Append(listDir[saved.csvPath],
                                            RowLines(o, n)))

\* C19: when a listing run fails while fetching page p, every attempt for
\* the page having failed, the progress file designates page p, its offset,
\* the count of the rows of pages 1..p-1 and the partial CSV file; and the
\* next invocation starts by requesting page p's offset and appends to that
\* file, requesting and appending none of the pages before p and writing
\* no header.
C19_CheckpointResumesAtFailedPage ==
    /\ [][ResumeStartsAtPage /\ ResumeOnlyGoesOn]_vars
    /\ []CheckpointDesignatesPage

\* the rows lines of a CSV file, its header left out
DataLines(path) == SelectSeq(listDir[path], LAMBDA line : ~line.header)

\* the number of rows a sequence of lines holds
RECURSIVE RowCount(_)
RowCount(lines) ==
    IF Len(lines) = 0 THEN 0 ELSE Head(lines).n + RowCount(Tail(lines))

\* C24: in the listing each page gets one request and at most 5 retries, six
\* requests at most; the waits before retries 1..5 are 3, 6, 12, 24 and 48
\* seconds in that order; the retry counter starts from zero for every page;
\* and when the last retry fails the checkpoint is written and the run ends.
C24_RetriesFollowTheSchedule ==
    /\ [](/\ pageRequests <= 6
          /\ Len(listWaits) <= 5
          /\ listWaits = SubSeq(<<3, 6, 12, 24, 48>>, 1, Len(listWaits))
          /\ listPc = "attempt" => pageRequests = Len(listWaits))
    /\ [][/\ (listPc = "page" /\ listPc' = "attempt") =>
                 listAttempt' = 0 /\ pageRequests' = 0 /\ listWaits' = <<>>
          /\ (pageRequests' = 6 /\ pageRequests = 5 /\ listDir' = listDir) =>
                 /\ listPc' = "failed"
                 /\ listOutcome' = "exhausted"
                 /\ progressFile' =
                       Progress(listOffset, listTotal, listFetched, listPage,
                                activeCsvPath)]_vars

\* C24 witness: after page 1 arrived, the six requests for page 2 have
\* failed with the five waits between them
C24_Witness ==
    /\ Exhausted
    /\ listPage = 2
    /\ pageRequests = 6
    /\ listWaits = <<3, 6, 12, 24, 48>>
    /\ progressFile.exists
    /\ progressFile.page = 2

\* C25: the checkpoint file is removed only where the page loop has ended by
\* its condition (fetched >= total, or a short page); no end by an error
\* removes it; and after a run that ends in success there is none.
C25_CheckpointRemovedOnlyAtTheEnd ==
    /\ [][/\ (progressFile.exists /\ ~progressFile'.exists) =>
                 /\ listOutcome' = "complete"
                 /\ \/ listFetched' >= listTotal'
                    \/ listDir'[activeCsvPath][Len(listDir'[activeCsvPath])].n
                          < 250
          /\ (listOutcome' \in {"exhausted", "authFailed"}
                 /\ progressFile.exists) => progressFile'.exists]_vars
    /\ [](listOutcome = "complete" => ~progressFile.exists)

\* C25 witness: a run resumed from the checkpoint of a failed one has ended
\* in success after its last page, and the checkpoint is gone
C25_Witness ==
    /\ listOutcome = "complete"
    /\ prevOutcome = "exhausted"
    /\ saved.exists
    /\ listPage = 3
    /\ ~progressFile.exists

\* C26: whenever a checkpoint is on disk its offset is that of the first
\* page whose rows are not yet in the output file and its fetched count is
\* the number of rows in the file; so a run stopped at any point and resumed
\* to completion appends every upstream page exactly once.
C26_CheckpointMatchesTheOutput ==
    /\ []((progressFile.exists /\ progressFile.csvPath \in DOMAIN listDir) =>
            /\ progressFile.fetched = RowCount(DataLines(progressFile.csvPath))
            /\ \A i \in 1..Len(DataLines(progressFile.csvPath)) :
                  DataLines(progressFile.csvPath)[i].from < progressFile.offset)
    /\ [](listOutcome = "complete" =>
            /\ \A i \in 1..Len(DataLines(activeCsvPath)) :
                  DataLines(activeCsvPath)[i].from = (i - 1) * 250
            /\ RowCount(DataLines(activeCsvPath)) = serverTotal)

\* C27: a checkpoint left by a listing run against one environment is never
\* used to resume a run against another, so no output file holds rows
\* fetched from two environments.
C27_CheckpointStaysInItsEnvironment ==
    \A path \in DOMAIN listDir :
       \A i, j \in 1..Len(DataLines(path)) :
          DataLines(path)[i].env = DataLines(path)[j].env

(***************************************************************************)
(* The token and the clock: ensureValidToken before the outbound calls of  *)
(* a command, with the time that passes between the check and the call.    *)
(* Times are in seconds.                                                   *)
(***************************************************************************)
\* isTokenExpired: the buffer before the expiry instant
Buffer == 30
MaxCalls == 7
\* response.data.expires_in
TokenLifetimes == {60, 300}
\* the seconds a remote call may take
Latencies == {0, 1, 30}
\* retryDelays
Sites == {"search", "delete", "order", "listing"}

\* the time to the expiry instant after d more seconds
After(t, d) == IF t - d < 0 THEN -1 ELSE t - d

\* !this.accessToken || this.isTokenExpired()
isTokenExpired(has, t) == ~has \/ t <= Buffer

InitToken ==
    /\ hasToken = FALSE
    /\ ttl = 0
    /\ tokPc = "ensure"
    /\ site \in Sites
    /\ tokAttempt = 0
    /\ tokCalls = 0
    /\ tokIssued = NoRequest
    /\ MiningIdle
    /\ CsvIdle
    /\ SearchIdle
    /\ BulkIdle
    /\ ListIdle
    /\ NamesIdle

\* ensureValidToken, with authenticate when the token is missing or expired
EnsureValidToken ==
    /\ tokPc = "ensure"
    /\ IF isTokenExpired(hasToken, ttl)
       THEN \E ok \in BOOLEAN, life \in TokenLifetimes :
               IF ok
               THEN /\ hasToken' = TRUE
                    /\ ttl' = life
                    /\ tokPc' = IF tokAttempt = 0 THEN "request" ELSE "wait"
               ELSE /\ tokPc' = "stopped"
                    /\ UNCHANGED <<hasToken, ttl>>
       ELSE /\ tokPc' = IF tokAttempt = 0 THEN "request" ELSE "wait"
            /\ UNCHANGED <<hasToken, ttl>>
    /\ UNCHANGED <<site, tokAttempt, tokCalls, tokIssued>>

\* the listing's wait before a retry
RetryWait ==
    /\ tokPc = "wait"
    /\ ttl' = After(ttl, retryDelays[tokAttempt])
    /\ tokPc' = "request"
    /\ UNCHANGED <<hasToken, site, tokAttempt, tokCalls, tokIssued>>

\* the request is issued with the token as it stands
IssueRequest ==
    /\ tokPc = "request"
    /\ tokCalls < MaxCalls
    /\ tokIssued' = [sent |-> TRUE, retry |-> tokAttempt,
                     hasToken |-> hasToken, ttl |-> ttl]
    /\ tokCalls' = tokCalls + 1
    /\ tokPc' = "inFlight"
    /\ UNCHANGED <<hasToken, ttl, site, tokAttempt>>

\* the request ends: the next call of the loop follows, or the listing's
\* retry, or the run ends
RequestEnds ==
    /\ tokPc = "inFlight"
    /\ \E d \in Latencies, ok \in BOOLEAN :
          /\ ttl' = After(ttl, d)
          /\ IF ok \/ site \in {"delete", "order"}
             THEN tokPc' = "ensure" /\ tokAttempt' = 0
             ELSE IF site = "listing" /\ tokAttempt + 1 <= maxRetries
             THEN tokPc' = "ensure" /\ tokAttempt' = tokAttempt + 1
             ELSE tokPc' = "stopped" /\ tokAttempt' = tokAttempt
    /\ UNCHANGED <<hasToken, site, tokCalls, tokIssued>>

NextToken ==
    \/ EnsureValidToken
          /\ UNCHANGED <<miningVars, csvVars, searchVars, bulkVars, listVars,
                         nameVars>>
    \/ RetryWait
          /\ UNCHANGED <<miningVars, csvVars, searchVars, bulkVars, listVars,
                         nameVars>>
    \/ IssueRequest
          /\ UNCHANGED <<miningVars, csvVars, searchVars, bulkVars, listVars,
                         nameVars>>
    \/ RequestEnds
          /\ UNCHANGED <<miningVars, csvVars, searchVars, bulkVars, listVars,
                         nameVars>>

SpecToken == InitToken /\ [][NextToken]_vars

\* C21: every request other than the login (a search page, a product
\* delete, an order fetch, a listing page and each retry of one) is issued
\* with a token that exists and is, at that moment, more than 30 seconds
\* from its expiry instant.
C21_RequestsCarryAFreshToken ==
    tokIssued.sent => tokIssued.hasToken /\ tokIssued.ttl > 30


(***************************************************************************)
(* generateUniqueFilename over the names of a directory, character by      *)
(* character.                                                              *)
(***************************************************************************)
NameBase == <<"r">>
NameExt == <<"j", "s", "o", "n">>

\* base(n).ext
Numbered(base, digits, ext) ==
    base \o <<"(">> \o digits \o <<")", ".">> \o ext

\* the names a directory may hold, each with the counter it carries for
\* base r and extension json (-1: not a file of that base)
NamePool ==
    {[name |-> NameBase \o <<".">> \o NameExt, counter |-> 0],
     [name |-> Numbered(NameBase, <<"1">>, NameExt), counter |-> 1],
     [name |-> Numbered(NameBase, <<"2">>, NameExt), counter |-> 2],
     [name |-> Numbered(NameBase, <<"5">>, NameExt), counter |-> 5],
     [name |-> Numbered(NameBase, <<"0", "7">>, NameExt), counter |-> 7],
     [name |-> Numbered(NameBase, <<"1", "0">>, NameExt), counter |-> 10],
     [name |-> Numbered(NameBase, <<"3">>, <<"c", "s", "v">>), counter |-> -1],
     [name |-> Numbered(<<"r", "x">>, <<"9">>, NameExt), counter |-> -1],
     [name |-> Numbered(<<"x", "r">>, <<"8">>, NameExt), counter |-> -1],
     [name |-> Numbered(NameBase, <<>>, NameExt), counter |-> -1],
     [name |-> Numbered(NameBase, <<"1", "a">>, NameExt), counter |-> -1]}

\* the mutant: the counter of a matching file is not read
UniqueMatchWithoutCounter(file, base, ext) ==
    [matched |-> startsWith(file, base) /\ endsWith(file, <<".">> \o ext),
     number |-> 0]

\* file.match(/^base(\((\d+)\))?\.ext$/): [matched, number], number being
\* parseInt of the digits, 0 without them
UniqueMatch(file, base, ext) ==
    LET first == Len(base) + 1
        last == Len(file) - Len(ext) - 1
    IN  IF \/ ~startsWith(file, base)
           \/ ~endsWith(file, <<".">> \o ext)
           \/ last < first - 1
        THEN [matched |-> FALSE, number |-> 0]
        ELSE IF last = first - 1
        THEN [matched |-> TRUE, number |-> 0]
        ELSE IF /\ last >= first + 2
                /\ file[first] = "("
                /\ file[last] = ")"
                /\ \A k \in (first + 1)..(last - 1) : IsDigit(file[k])
        THEN [matched |-> TRUE, number |-> IntVal(file, first + 1, last)]
        ELSE [matched |-> FALSE, number |-> 0]

\* generateUniqueFilename(directory, basePattern, extension), files being
\* readdirSync(directory)
generateUniqueFilenameIn(files, basePattern, extension) ==
    LET NextName(maxNumber) ==
            Numbered(basePattern, NatToString(maxNumber + 1), extension)
    IN  IF basePattern \o <<".">> \o extension \notin files
        THEN basePattern \o <<".">> \o extension
        ELSE NextName(Max({0} \cup
                 {UniqueMatch(f, basePattern, extension).number :
                     f \in {g \in files :
                              UniqueMatch(g, basePattern, extension).matched}}))

InitNames ==
    /\ nameDir \in SUBSET {e.name : e \in NamePool}
    /\ namePc = "call"
    /\ nameReturned = <<>>
    /\ MiningIdle
    /\ CsvIdle
    /\ SearchIdle
    /\ BulkIdle
    /\ ListIdle
    /\ TokenIdle

\* the call
GenerateUniqueFilename ==
    /\ namePc = "call"
    /\ nameReturned' = generateUniqueFilenameIn(nameDir, NameBase, NameExt)
    /\ namePc' = "returned"
    /\ nameDir' = nameDir

\* the caller writes the file of the name it got
WriteNamedFile ==
    /\ namePc = "returned"
    /\ nameDir' = nameDir \cup {nameReturned}
    /\ namePc' = "written"
    /\ nameReturned' = nameReturned

NextNames ==
    \/ GenerateUniqueFilename
          /\ UNCHANGED <<miningVars, csvVars, searchVars, bulkVars, listVars,
                       tokenVars>>
    \/ WriteNamedFile
          /\ UNCHANGED <<miningVars, csvVars, searchVars, bulkVars, listVars,
                       tokenVars>>

SpecNames == InitNames /\ [][NextNames]_vars

\* the counters the files of the directory carry for the base
CountersIn(dir) ==
    {e.counter : e \in {x \in NamePool : x.name \in dir /\ x.counter >= 0}}

\* C28: generateUniqueFilename returns the plain name base.ext when no file
\* of that name exists; otherwise base(n).ext with n one more than the
\* largest parenthesized counter among the existing files of the base, the
\* plain name counting as 0 and gaps not being reused; in both cases the
\* name returned is not the name of an existing file.
C28_UniqueFilenameIsFresh ==
    namePc = "returned" =>
       /\ NameBase \o <<".">> \o NameExt \notin nameDir =>
             nameReturned = NameBase \o <<".">> \o NameExt
       /\ NameBase \o <<".">> \o NameExt \in nameDir =>
             \E n \in 1..11 :
                /\ n - 1 \in CountersIn(nameDir)
                /\ \A k \in CountersIn(nameDir) : k < n
                /\ nameReturned = Numbered(NameBase, NatToString(n), NameExt)
       /\ nameReturned \notin nameDir

\* C28 witness: beside r.json, r(1).json and r(5).json and files of other
\* bases and extensions the call has returned r(6).json
C28_Witness ==
    /\ namePc = "returned"
    /\ nameDir = {NameBase \o <<".">> \o NameExt,
                  Numbered(NameBase, <<"1">>, NameExt),
                  Numbered(NameBase, <<"5">>, NameExt),
                  Numbered(NameBase, <<"3">>, <<"c", "s", "v">>),
                  Numbered(<<"r", "x">>, <<"9">>, NameExt),
                  Numbered(NameBase, <<>>, NameExt)}
    /\ nameReturned = <<"r", "(", "6", ")", ".", "j", "s", "o", "n">>

=============================================================================
